---- MODULE Spec2Model ----
(***************************************************************************)
(* Model of src/rust_03/rust_03.rs: a Diffie-Hellman handshake over a      *)
(* duplex byte stream, an LCG keystream generator and an XOR stream cipher *)
(* driving a one-way hex-framed chat (listener decrypts, connector         *)
(* encrypts).                                                              *)
(*                                                                         *)
(* Rust's u64 and u128 values do not fit the model checker's integers, so  *)
(* an unsigned integer of w bytes is a sequence of w limbs in 0..255,      *)
(* least significant limb first.  The operators of the first section are   *)
(* Rust's wrapping-free integer operators on that representation; every    *)
(* product, sum and remainder is computed exactly, at the width the source *)
(* computes it.                                                            *)
(***************************************************************************)
EXTENDS Integers, Sequences, FiniteSets, TLC

-----------------------------------------------------------------------------
(* Unsigned integers as little-endian limb sequences.                      *)

Byte == 0..255

\* A natural number that fits the checker's integers, as w limbs.
RECURSIVE NatLimbs(_, _)
NatLimbs(n, w) ==
    IF w = 0 THEN <<>> ELSE <<n % 256>> \o NatLimbs(n \div 256, w - 1)

\* An integer literal written as its hexadecimal bytes, most significant first.
Reverse(s) == SubSeq([i \in 1..Len(s) |-> s[Len(s) + 1 - i]], 1, Len(s))

HexLit(bytes) == Reverse(bytes)

\* The value 0 at w limbs.
RECURSIVE Zeros(_)
Zeros(w) == IF w = 0 THEN <<>> ELSE <<0>> \o Zeros(w - 1)

\* `x as uN`: zero-extend or truncate to w limbs.
Resize(a, w) ==
    IF Len(a) >= w THEN SubSeq(a, 1, w) ELSE a \o Zeros(w - Len(a))

AsU128(a) == Resize(a, 16)

AsU64(a) == Resize(a, 8)

IsZero(a) == \A i \in 1..Len(a) : a[i] = 0

\* a >= b for two values of the same width, compared from the top limb.
RECURSIVE GeqFrom(_, _, _)
GeqFrom(a, b, i) ==
    IF i = 0 THEN TRUE
    ELSE IF a[i] # b[i] THEN a[i] > b[i]
    ELSE GeqFrom(a, b, i - 1)

Geq(a, b) == GeqFrom(a, b, Len(a))

\* a + b at the width of a; a carry out of the top limb is dropped.
RECURSIVE AddFrom(_, _, _, _)
AddFrom(a, b, i, carry) ==
    IF i > Len(a) THEN <<>>
    ELSE LET t == a[i] + b[i] + carry
         IN  <<t % 256>> \o AddFrom(a, b, i + 1, t \div 256)

AddW(a, b) == AddFrom(a, b, 1, 0)

\* a - b at the width of a, for a >= b.
RECURSIVE SubFrom(_, _, _, _)
SubFrom(a, b, i, borrow) ==
    IF i > Len(a) THEN <<>>
    ELSE LET t == a[i] - b[i] - borrow
         IN  IF t < 0 THEN <<t + 256>> \o SubFrom(a, b, i + 1, 1)
                      ELSE <<t>> \o SubFrom(a, b, i + 1, 0)

SubW(a, b) == SubFrom(a, b, 1, 0)

\* The number of limbs of a up to its highest non-zero limb.
RECURSIVE SigFrom(_, _)
SigFrom(a, i) ==
    IF i = 0 THEN 0 ELSE IF a[i] # 0 THEN i ELSE SigFrom(a, i - 1)

Sig(a) == SigFrom(a, Len(a))

Min(x, y) == IF x <= y THEN x ELSE y

Max(x, y) == IF x >= y THEN x ELSE y

\* The sum of a[i] * b[k + 1 - i] for i = lo..hi: column k of the schoolbook
\* product.
RECURSIVE ColumnSum(_, _, _, _, _)
ColumnSum(a, b, k, lo, hi) ==
    IF hi < lo THEN 0
    ELSE a[hi] * b[k + 1 - hi] + ColumnSum(a, b, k, lo, hi - 1)

\* The limbs of the number whose columns are cols[i..], with a carry coming in;
\* a carry out of the top column is dropped.
RECURSIVE CarryFrom(_, _, _)
CarryFrom(cols, i, carry) ==
    IF i > Len(cols) THEN <<>>
    ELSE LET t == cols[i] + carry
         IN  <<t % 256>> \o CarryFrom(cols, i + 1, t \div 256)

\* a * b at the width of a (both of that width): the schoolbook product by
\* columns, the columns past the width dropped.  Limbs above the highest
\* non-zero limb of a factor contribute nothing and are left out of the sums.
MulW(a, b) ==
    LET sa == Sig(a)
        sb == Sig(b)
    IN  CarryFrom(SubSeq([k \in 1..Len(a) |->
                             ColumnSum(a, b, k, Max(1, k + 1 - sb), Min(k, sa))],
                         1, Len(a)),
                  1, 0)

\* m * 2^k for k = 0..n-1.
RECURSIVE Doublings(_, _)
Doublings(m, n) ==
    IF n = 0 THEN <<>> ELSE <<m>> \o Doublings(AddW(m, m), n - 1)

\* r mod m for r < 256 * m, given ms = Doublings(m, 8): subtract m * 2^(k-1),
\* k = 8 down to 1, where it fits.
RECURSIVE Reduce(_, _, _)
Reduce(r, ms, k) ==
    IF k = 0 THEN r
    ELSE IF Geq(r, ms[k]) THEN Reduce(SubW(r, ms[k]), ms, k - 1)
    ELSE Reduce(r, ms, k - 1)

\* Long division of a by m, one limb of a at a time from the top: s.r is the
\* remainder of the limbs of a above s.i, one limb wider than m needs.
RECURSIVE RemLoop(_, _, _)
RemLoop(s, a, ms) ==
    IF s.i = 0 THEN s.r
    ELSE LET shifted == <<a[s.i]>> \o SubSeq(s.r, 1, Len(s.r) - 1)
         IN  RemLoop([r |-> IF Geq(shifted, ms[1]) THEN Reduce(shifted, ms, 8)
                                                   ELSE shifted,
                      i |-> s.i - 1], a, ms)

\* a % m at the width of a, for m # 0, by long division.
RemLong(a, m) ==
    LET wr == Sig(m) + 1
        ms == Doublings(Resize(m, wr), 8)
    IN  Resize(RemLoop([r |-> Zeros(wr), i |-> Sig(a)], a, ms), Len(a))

\* m is a power of 256: one limb is 1 and every other is 0.
IsPow256(m) ==
    /\ Sig(m) > 0
    /\ m[Sig(m)] = 1
    /\ \A i \in 1..(Sig(m) - 1) : m[i] = 0

\* a % m at the width of a, for m # 0.  Modulo 256^k the remainder is the low
\* k limbs.
RemW(a, m) ==
    IF IsPow256(m) THEN Resize(SubSeq(a, 1, Sig(m) - 1), Len(a))
    ELSE RemLong(a, m)

\* a >> 1 at the width of a: each limb takes the low bit of the limb above.
RECURSIVE Shr1From(_, _)
Shr1From(a, i) ==
    IF i > Len(a) THEN <<>>
    ELSE <<(a[i] \div 2) + (IF i < Len(a) THEN (a[i + 1] % 2) * 128 ELSE 0)>>
         \o Shr1From(a, i + 1)

\* A variant that shifts by two bits; C23 fails for it.
Shr2(a) == Shr1From(Shr1From(a, 1), 1)

Shr1(a) == Shr1From(a, 1)

-----------------------------------------------------------------------------
(* Constants of the program.                                               *)

P == HexLit(<<\hD8, \h7F, \hA3, \hE2, \h91, \hB4, \hC7, \hF3>>)

G == 2

LCG_A == 1103515245

LCG_C == 12345

\* 1u64 << 32: limb 5 is 2^32.
LCG_M == <<0, 0, 0, 0, 1, 0, 0, 0>>

-----------------------------------------------------------------------------
(* mod_exp: square and multiply in a u128 accumulator.                     *)

\* A variant without `base %= modulus`; C21 fails for it.
ModExpEntryUnreduced(base, exp, modulus) ==
    [result  |-> NatLimbs(1, 16),
     base    |-> AsU128(base),
     exp     |-> exp,
     modulus |-> AsU128(modulus),
     iters   |-> 0]

\* The locals of mod_exp before the loop.
ModExpEntry(base, exp, modulus) ==
    [result  |-> NatLimbs(1, 16),
     base    |-> RemW(AsU128(base), AsU128(modulus)),
     exp     |-> exp,
     modulus |-> AsU128(modulus),
     iters   |-> 0]

\* A variant of the iteration whose products are taken in u64 and wrap; C6
\* fails for it.
ModExpIterU64(s) ==
    [result  |-> IF s.exp[1] % 2 = 1
                 THEN RemW(AsU128(AsU64(MulW(s.result, s.base))), s.modulus)
                 ELSE s.result,
     base    |-> RemW(AsU128(AsU64(MulW(s.base, s.base))), s.modulus),
     exp     |-> Shr1(s.exp),
     modulus |-> s.modulus,
     iters   |-> s.iters + 1]

\* One iteration of `while exp > 0`.
ModExpIter(s) ==
    [result  |-> IF s.exp[1] % 2 = 1
                 THEN RemW(MulW(s.result, s.base), s.modulus)
                 ELSE s.result,
     base    |-> RemW(MulW(s.base, s.base), s.modulus),
     exp     |-> Shr1(s.exp),
     modulus |-> s.modulus,
     iters   |-> s.iters + 1]

RECURSIVE ModExpLoop(_)
ModExpLoop(s) == IF IsZero(s.exp) THEN s ELSE ModExpLoop(ModExpIter(s))

mod_exp(base, exp, modulus) ==
    AsU64(ModExpLoop(ModExpEntry(base, exp, modulus)).result)

-----------------------------------------------------------------------------
(* KeystreamGenerator and xor_cipher.                                      *)

\* A variant that keeps the low 32 bits of the seed; C24 fails for it.
KeystreamGenerator_new_u32(seed) == [state |-> Resize(Resize(seed, 4), 8)]

KeystreamGenerator_new(seed) == [state |-> seed]

\* A variant that leaves the increment out; C15 fails for it.
LcgStepNoIncrement(state) ==
    AsU64(RemW(MulW(AsU128(state), AsU128(NatLimbs(LCG_A, 8))), AsU128(LCG_M)))

\* ((state as u128 * LCG_A as u128 + LCG_C as u128) % LCG_M as u128) as u64
LcgStep(state) ==
    AsU64(RemW(AddW(MulW(AsU128(state), AsU128(NatLimbs(LCG_A, 8))),
                    AsU128(NatLimbs(LCG_C, 8))),
               AsU128(LCG_M)))

\* A variant that takes bits 8 to 15; C25 fails for it.
SecondByte(x) == x[2]

\* A variant that takes bits 32 to 39; C16 fails for it.
FifthByte(x) == x[5]

\* (x & 0xFF) as u8
LowByte(x) == x[1]

\* next_byte(&mut self): the generator after the call and the byte returned.
next_byte(ks) ==
    LET state == LcgStep(ks.state)
    IN  [ks |-> [state |-> state], byte |-> LowByte(state)]

\* A variant of the loop that pushes the byte of temp_state before stepping
\* it; C9 fails for it.
RECURSIVE PeekLoopStale(_, _)
PeekLoopStale(temp_state, count) ==
    IF count = 0 THEN <<>>
    ELSE <<LowByte(temp_state)>> \o PeekLoopStale(LcgStep(temp_state), count - 1)

\* The loop of peek_bytes on its local temp_state.
RECURSIVE PeekLoop(_, _)
PeekLoop(temp_state, count) ==
    IF count = 0 THEN <<>>
    ELSE LET t == LcgStep(temp_state)
         IN  <<LowByte(t)>> \o PeekLoop(t, count - 1)

\* A variant of peek_bytes that consumes the first byte it returns; C7 fails
\* for it.
peek_bytes_consuming(ks, count) ==
    [ks    |-> IF count = 0 THEN ks ELSE next_byte(ks).ks,
     bytes |-> PeekLoop(ks.state, count)]

\* temp_state when the loop of peek_bytes ends.
RECURSIVE PeekLoopEnd(_, _)
PeekLoopEnd(temp_state, count) ==
    IF count = 0 THEN temp_state ELSE PeekLoopEnd(LcgStep(temp_state), count - 1)

\* A variant of peek_bytes whose loop runs on self.state and not on a copy; C8
\* fails for it.
peek_bytes_in_place(ks, count) ==
    [ks    |-> [state |-> PeekLoopEnd(ks.state, count)],
     bytes |-> PeekLoop(ks.state, count)]

\* peek_bytes(&self, count): the generator after the call and the bytes returned.
peek_bytes(ks, count) ==
    [ks |-> ks, bytes |-> PeekLoop(ks.state, count)]

\* temp = keystream.state stepped i times, for i from 0.
RECURSIVE StepTimes(_, _)
StepTimes(state, i) ==
    IF i = 0 THEN state ELSE StepTimes(LcgStep(state), i - 1)

\* The "Key:" bytes of the diagnostics of both loops: for i = 0..count-1 in
\* turn, the low 8 bits of temp; the generator is only read.
key_bytes(ks, count) ==
    SubSeq([i \in 1..count |-> LowByte(StepTimes(ks.state, i - 1))], 1, count)

\* A variant that takes a | b; C10 fails for it.
RECURSIVE OrByte(_, _)
OrByte(a, b) ==
    IF a = 0 /\ b = 0 THEN 0
    ELSE Max(a % 2, b % 2) + 2 * OrByte(a \div 2, b \div 2)

\* a ^ b on u8, bit by bit.
RECURSIVE XorByte(_, _)
XorByte(a, b) ==
    IF a = 0 /\ b = 0 THEN 0
    ELSE (((a % 2) + (b % 2)) % 2) + 2 * XorByte(a \div 2, b \div 2)

\* data.iter().map(|&b| b ^ keystream.next_byte()).collect() on data[lo..hi]:
\* the generator after it and the bytes collected.  The bytes are taken in
\* order, the first half and then the second on the generator the first has
\* left, so that a long message nests no deeper than a short one.
RECURSIVE XorRange(_, _, _, _)
XorRange(data, lo, hi, ks) ==
    IF lo > hi THEN [ks |-> ks, out |-> <<>>]
    ELSE IF lo = hi
    THEN LET nb == next_byte(ks)
         IN  [ks |-> nb.ks, out |-> <<XorByte(data[lo], nb.byte)>>]
    ELSE LET mid   == (lo + hi) \div 2
             first == XorRange(data, lo, mid, ks)
             rest  == XorRange(data, mid + 1, hi, first.ks)
         IN  [out |-> first.out \o rest.out, ks |-> rest.ks]

\* A variant of xor_cipher that takes one keystream byte more than the data
\* has bytes; C11 fails for it.
xor_cipher_one_more(data, ks) == XorRange(data, 1, Len(data), next_byte(ks).ks)

xor_cipher(data, ks) == XorRange(data, 1, Len(data), ks)

-----------------------------------------------------------------------------
(* Text on the wire: hex::encode, hex::decode, str::trim, read_line.       *)

Newline == 10

\* The number of bytes of the UTF-8 character at the head of t, 0 when no
\* well-formed character starts there.
Utf8CharLen(t) ==
    LET b == t[1]
        cont(i) == Len(t) >= i /\ t[i] \in 128..191
    IN  IF b < 128 THEN 1
        ELSE IF b \in 194..223 THEN (IF cont(2) THEN 2 ELSE 0)
        ELSE IF b = 224
        THEN (IF Len(t) >= 2 /\ t[2] \in 160..191 /\ cont(3) THEN 3 ELSE 0)
        ELSE IF b \in 225..236 \/ b \in 238..239
        THEN (IF cont(2) /\ cont(3) THEN 3 ELSE 0)
        ELSE IF b = 237
        THEN (IF Len(t) >= 2 /\ t[2] \in 128..159 /\ cont(3) THEN 3 ELSE 0)
        ELSE IF b = 240
        THEN (IF Len(t) >= 2 /\ t[2] \in 144..191 /\ cont(3) /\ cont(4)
              THEN 4 ELSE 0)
        ELSE IF b \in 241..243
        THEN (IF cont(2) /\ cont(3) /\ cont(4) THEN 4 ELSE 0)
        ELSE IF b = 244
        THEN (IF Len(t) >= 2 /\ t[2] \in 128..143 /\ cont(3) /\ cont(4)
              THEN 4 ELSE 0)
        ELSE 0

\* The bytes are well-formed UTF-8: what read_line and lines() require of a
\* line before they return it as a String.
RECURSIVE IsUtf8(_)
IsUtf8(t) ==
    IF t = <<>> THEN TRUE
    ELSE IF Utf8CharLen(t) = 0 THEN FALSE
    ELSE IsUtf8(SubSeq(t, Utf8CharLen(t) + 1, Len(t)))

\* char::is_whitespace: the characters of the White_Space property, in UTF-8:
\* U+0009..U+000D, U+0020, U+0085, U+00A0, U+1680, U+2000..U+200A, U+2028,
\* U+2029, U+202F, U+205F, U+3000.
Whitespace ==
    {<<c>> : c \in {9, 10, 11, 12, 13, 32}}
        \cup {<<194, 133>>, <<194, 160>>, <<225, 154, 128>>}
        \cup {<<226, 128, c>> : c \in (128..138) \cup {168, 169, 175}}
        \cup {<<226, 129, 159>>, <<227, 128, 128>>}

StartsWith(t, w) == Len(w) <= Len(t) /\ SubSeq(t, 1, Len(w)) = w

EndsWith(t, w) ==
    Len(w) <= Len(t) /\ SubSeq(t, Len(t) - Len(w) + 1, Len(t)) = w

\* str::trim, on well-formed UTF-8.
RECURSIVE TrimStart(_)
TrimStart(t) ==
    IF \E w \in Whitespace : StartsWith(t, w)
    THEN TrimStart(SubSeq(t, Len(CHOOSE w \in Whitespace : StartsWith(t, w)) + 1,
                          Len(t)))
    ELSE t

RECURSIVE TrimEnd(_)
TrimEnd(t) ==
    IF \E w \in Whitespace : EndsWith(t, w)
    THEN TrimEnd(SubSeq(t, 1,
                        Len(t) - Len(CHOOSE w \in Whitespace : EndsWith(t, w))))
    ELSE t

\* A variant that takes nothing off; C22 fails for it.
trim_nothing(t) == t

trim(t) == TrimEnd(TrimStart(t))

\* A variant that writes A..F; C14 fails for it.
HexCharUpper(n) == IF n < 10 THEN 48 + n ELSE 55 + n

\* The lowercase hexadecimal digit of a nibble, as its ASCII code.
HexChar(n) == IF n < 10 THEN 48 + n ELSE 87 + n

\* hex::encode
RECURSIVE hex_encode(_)
hex_encode(bytes) ==
    IF bytes = <<>> THEN <<>>
    ELSE <<HexChar(Head(bytes) \div 16), HexChar(Head(bytes) % 16)>>
         \o hex_encode(Tail(bytes))

\* A variant that reads a..f as 0..5; C2 fails for it.
HexValLetterFromZero(c) ==
    IF c \in 48..57 THEN c - 48
    ELSE IF c \in 97..102 THEN c - 97
    ELSE IF c \in 65..70 THEN c - 65
    ELSE -1

\* The value of a hexadecimal digit given as its ASCII code, -1 for any other
\* character; hex::decode takes both cases of a..f.
HexVal(c) ==
    IF c \in 48..57 THEN c - 48
    ELSE IF c \in 97..102 THEN c - 87
    ELSE IF c \in 65..70 THEN c - 55
    ELSE -1

RECURSIVE HexPairs(_)
HexPairs(t) ==
    IF t = <<>> THEN <<>>
    ELSE <<HexVal(t[1]) * 16 + HexVal(t[2])>> \o HexPairs(SubSeq(t, 3, Len(t)))

\* A variant that reads an odd number of digits as if a 0 came first; C12
\* fails for it.
hex_decode_padded(t) ==
    IF \E i \in 1..Len(t) : HexVal(t[i]) = -1 THEN <<>>
    ELSE IF Len(t) % 2 = 1 THEN HexPairs(<<48>> \o t)
    ELSE HexPairs(t)

\* hex::decode(t).unwrap_or_default(): the bytes, or none when t has an odd
\* length or a character that is no hexadecimal digit.
hex_decode_or_default(t) ==
    IF Len(t) % 2 = 1 \/ \E i \in 1..Len(t) : HexVal(t[i]) = -1 THEN <<>>
    ELSE HexPairs(t)

\* A variant that writes the least significant byte first; C19 fails for it.
to_le_bytes(x) == x

\* u64::to_be_bytes and u64::from_be_bytes: the wire carries the most
\* significant byte first.
to_be_bytes(x) == Reverse(x)

\* A variant that reads the least significant byte first; C1 fails for it.
from_le_bytes(buf) == buf

from_be_bytes(buf) == Reverse(buf)

\* The position of the first newline of buf, 0 when it has none.
RECURSIVE NewlineAt(_, _)
NewlineAt(buf, i) ==
    IF i > Len(buf) THEN 0
    ELSE IF buf[i] = Newline THEN i
    ELSE NewlineAt(buf, i + 1)

-----------------------------------------------------------------------------
(* Bounds of the model.                                                    *)

\* How many of the private keys of KeyPool generate_random may return.
NumKeys == 3

\* How many lines the operator types at the connector before end of input.
MaxLines == 2

\* Values of generate_random: small ones, one the size of a nanosecond clock
\* reading of this decade, and the largest u64.
KeyPool ==
    << NatLimbs(5, 8),
       HexLit(<<\h18, \hE5, \hB2, \hA3, \hC4, \hD5, \hE6, \hF7>>),
       NatLimbs(100007, 8),
       HexLit(<<\hFF, \hFF, \hFF, \hFF, \hFF, \hFF, \hFF, \hFF>>),
       NatLimbs(0, 8) >>

PrivKeys == {KeyPool[i] : i \in 1..NumKeys}

\* Lines of operator input: "", " ", "hi", " a", and the byte FF, which is no
\* UTF-8.
InputLines == {<<>>, <<32>>, <<104, 105>>, <<32, 97>>, <<255>>}

-----------------------------------------------------------------------------
(* The two processes and the connection between them.                      *)

Peers == {"server", "client"}

Other(p) == IF p = "server" THEN "client" ELSE "server"

\* The value of a local that is not yet assigned.
None == <<>>

VARIABLES
    pc,            \* where each process is: run_server and run_client
    is_server,     \* the flag each process passes to diffie_hellman_exchange
    hs_step,       \* how many of the two transfers of the exchange are done
    private_key, public_key, their_public, shared_secret,
    keystream,     \* each process's KeystreamGenerator
    inbox,         \* the bytes sent to each process and not yet read by it
    closed,        \* whether each process has dropped its stream
    lines_typed,   \* how many lines the connector has read from stdin
    hs_log,        \* history: the transfers each process has done, in order
    sent,          \* history: the messages the connector has encrypted
    shown,         \* history: the messages the listener has decrypted
    wire,          \* history: every byte each process has written to the stream
    pending,       \* connections made to the listener and not yet accepted
    accepts,       \* history: how many times the listener has returned from accept
    lines_read,    \* history: how many lines the listener's read_line has returned
    mod_exp_memo,  \* mod_exp(_, _, P) on the arguments of the handshake
    me,            \* a call of mod_exp on its own: arguments and return value
    gens,          \* two KeystreamGenerators on their own, seeded alike
    cx             \* a message through xor_cipher and back, on its own

\* The functions called on their own, outside the two processes.
calls == <<me, gens, cx>>

vars ==
    <<pc, is_server, hs_step, private_key, public_key, their_public,
      shared_secret, keystream, inbox, closed, lines_typed, hs_log, sent,
      shown, wire, pending, accepts, lines_read, mod_exp_memo, calls>>

GU64 == NatLimbs(G, 8)

\* mod_exp(base, exp, P) for every base and exponent the handshake can pass:
\* G and every public key, to every private key.  Evaluated once, in the
\* initial state.
ModExpMemo ==
    LET pubs == {<<GU64, k, mod_exp(GU64, k, P)>> : k \in PrivKeys}
    IN  pubs \cup {<<t[3], k, mod_exp(t[3], k, P)>> : t \in pubs, k \in PrivKeys}

\* mod_exp(base, exp, P), looked up where it has been evaluated before.
ModExpP(base, exp) ==
    IF \E t \in mod_exp_memo : t[1] = base /\ t[2] = exp
    THEN (CHOOSE t \in mod_exp_memo : t[1] = base /\ t[2] = exp)[3]
    ELSE mod_exp(base, exp, P)

\* The state after both programs have started: the listener is bound and
\* waits in accept, the connector is about to connect.
ProtocolInitAt(start, flags) ==
    /\ pc = start
    /\ is_server = flags
    /\ hs_step = [p \in Peers |-> 0]
    /\ private_key = [p \in Peers |-> None]
    /\ public_key = [p \in Peers |-> None]
    /\ their_public = [p \in Peers |-> None]
    /\ shared_secret = [p \in Peers |-> None]
    /\ keystream = [p \in Peers |-> None]
    /\ inbox = [p \in Peers |-> <<>>]
    /\ closed = [p \in Peers |-> FALSE]
    /\ lines_typed = 0
    /\ hs_log = [p \in Peers |-> <<>>]
    /\ sent = <<>>
    /\ shown = <<>>
    /\ wire = [p \in Peers |-> <<>>]
    /\ pending = 0
    /\ accepts = 0
    /\ lines_read = 0

\* Both ends are this program.
ProtocolInit(flags) ==
    ProtocolInitAt([server |-> "accept", client |-> "connect"], flags)

\* No function is called outside the two processes.
NoCalls == me = None /\ gens = None /\ cx = None

\* run_server passes true, run_client passes false.
Init ==
    /\ ProtocolInit([server |-> TRUE, client |-> FALSE])
    /\ mod_exp_memo = ModExpMemo
    /\ NoCalls

\* TcpStream::connect: the listener is bound, so the connection is queued
\* whether or not the listener has reached accept.
Connect ==
    /\ pc["client"] = "connect"
    /\ pc' = [pc EXCEPT !["client"] = "keygen"]
    /\ pending' = pending + 1
    /\ UNCHANGED <<is_server, hs_step, private_key, public_key, their_public,
                   shared_secret, keystream, inbox, closed, lines_typed,
                   hs_log, sent, shown, mod_exp_memo, calls,
                   wire, accepts, lines_read>>

\* listener.accept() returns once a connection is queued.
Accept ==
    /\ pc["server"] = "accept"
    /\ pending > 0
    /\ pending' = pending - 1
    /\ accepts' = accepts + 1
    /\ pc' = [pc EXCEPT !["server"] = "keygen"]
    /\ UNCHANGED <<is_server, hs_step, private_key, public_key, their_public,
                   shared_secret, keystream, inbox, closed, lines_typed,
                   hs_log, sent, shown, mod_exp_memo, calls,
                   wire, lines_read>>

\* diffie_hellman_exchange up to its first transfer: the private key is what
\* generate_random returns, the public key is g^private mod p.
KeyGen(p) ==
    /\ pc[p] = "keygen"
    /\ \E priv \in PrivKeys :
          /\ private_key' = [private_key EXCEPT ![p] = priv]
          /\ public_key' = [public_key EXCEPT ![p] = ModExpP(GU64, priv)]
    /\ pc' = [pc EXCEPT ![p] = "exchange"]
    /\ UNCHANGED <<is_server, hs_step, their_public, shared_secret, keystream,
                   inbox, closed, lines_typed, hs_log, sent, shown,
                   mod_exp_memo, calls,
                   wire, pending, accepts, lines_read>>

\* Variants of the branch: the two orders exchanged, which fails C3; both
\* roles receiving first, which fails C4; both roles sending first, which
\* fails C5.
HsOrderExchanged(flag) ==
    IF flag THEN <<"send", "receive">> ELSE <<"receive", "send">>

HsOrderReceiveFirst(flag) == <<"receive", "send">>

HsOrderSendFirst(flag) == <<"send", "receive">>

\* The branch on is_server: the order of the two transfers.
HsOrder(flag) ==
    IF flag THEN <<"receive", "send">> ELSE <<"send", "receive">>

HsNextOp(p) == HsOrder(is_server[p])[hs_step[p] + 1]

\* What follows a transfer: after the first, the second; after the second,
\* the computation of the shared secret.
HsAdvance(p) ==
    /\ hs_step' = [hs_step EXCEPT ![p] = @ + 1]
    /\ pc' = [pc EXCEPT ![p] = IF hs_step[p] + 1 < 2 THEN "exchange" ELSE "secret"]

\* A variant that reads 4 bytes for the low half of the value; C26 fails
\* for it.
HsReceiveHalf(p) ==
    /\ pc[p] = "exchange"
    /\ HsNextOp(p) = "receive"
    /\ Len(inbox[p]) >= 4
    /\ LET buf == SubSeq(inbox[p], 1, 4)
       IN  /\ their_public' =
                 [their_public EXCEPT ![p] = Resize(from_be_bytes(buf), 8)]
           /\ hs_log' = [hs_log EXCEPT ![p] = Append(@, <<"receive", Len(buf)>>)]
    /\ HsAdvance(p)
    /\ inbox' = [inbox EXCEPT ![p] = SubSeq(@, 5, Len(@))]
    /\ UNCHANGED <<is_server, private_key, public_key, shared_secret,
                   keystream, closed, lines_typed, sent, shown, mod_exp_memo,
                   calls, wire, pending, accepts, lines_read>>

\* stream.read_exact(&mut buf) and u64::from_be_bytes(buf): blocks until 8
\* bytes have arrived.
HsReceive(p) ==
    /\ pc[p] = "exchange"
    /\ HsNextOp(p) = "receive"
    /\ Len(inbox[p]) >= 8
    /\ LET buf == SubSeq(inbox[p], 1, 8)
       IN  /\ their_public' = [their_public EXCEPT ![p] = from_be_bytes(buf)]
           /\ hs_log' = [hs_log EXCEPT ![p] = Append(@, <<"receive", Len(buf)>>)]
    /\ HsAdvance(p)
    /\ inbox' = [inbox EXCEPT ![p] = SubSeq(@, 9, Len(@))]
    /\ UNCHANGED <<is_server, private_key, public_key, shared_secret,
                   keystream, closed, lines_typed, sent, shown, mod_exp_memo, calls,
                   wire, pending, accepts, lines_read>>

\* stream.write_all(&public_key.to_be_bytes()) and stream.flush().
HsSend(p) ==
    /\ pc[p] = "exchange"
    /\ HsNextOp(p) = "send"
    /\ LET buf == to_be_bytes(public_key[p])
       IN  /\ inbox' = [inbox EXCEPT ![Other(p)] = @ \o buf]
           /\ wire' = [wire EXCEPT ![p] = @ \o buf]
           /\ hs_log' = [hs_log EXCEPT ![p] = Append(@, <<"send", Len(buf)>>)]
    /\ HsAdvance(p)
    /\ UNCHANGED <<is_server, private_key, public_key, their_public,
                   shared_secret, keystream, closed, lines_typed, sent, shown,
                   mod_exp_memo, calls,
                   pending, accepts, lines_read>>

\* A variant that takes the bytes that did arrive, padded with zeros, as the
\* peer's public value and carries on; C13 fails for it.
HsReceiveShort(p) ==
    /\ pc[p] = "exchange"
    /\ HsNextOp(p) = "receive"
    /\ Len(inbox[p]) < 8
    /\ closed[Other(p)]
    /\ their_public' =
          [their_public EXCEPT ![p] = from_be_bytes(Resize(inbox[p], 8))]
    /\ hs_log' = [hs_log EXCEPT ![p] = Append(@, <<"receive", Len(inbox[p])>>)]
    /\ HsAdvance(p)
    /\ inbox' = [inbox EXCEPT ![p] = <<>>]
    /\ UNCHANGED <<is_server, private_key, public_key, shared_secret,
                   keystream, closed, lines_typed, sent, shown, mod_exp_memo,
                   calls, wire, pending, accepts, lines_read>>

\* stream.read_exact(&mut buf) when the peer has closed and fewer than 8
\* bytes are left: it returns an error, `?` returns it from
\* diffie_hellman_exchange and from its caller, and the stream is dropped.
HsReceiveFail(p) ==
    /\ pc[p] = "exchange"
    /\ HsNextOp(p) = "receive"
    /\ Len(inbox[p]) < 8
    /\ closed[Other(p)]
    /\ inbox' = [inbox EXCEPT ![p] = <<>>]
    /\ pc' = [pc EXCEPT ![p] = "error"]
    /\ closed' = [closed EXCEPT ![p] = TRUE]
    /\ UNCHANGED <<is_server, hs_step, private_key, public_key, their_public,
                   shared_secret, keystream, lines_typed, hs_log, sent, shown,
                   mod_exp_memo, calls, wire, pending, accepts, lines_read>>

\* stream.write_all or stream.flush fails, which it may once the peer has
\* closed: the error is returned as above.
HsSendFail(p) ==
    /\ pc[p] = "exchange"
    /\ HsNextOp(p) = "send"
    /\ closed[Other(p)]
    /\ pc' = [pc EXCEPT ![p] = "error"]
    /\ closed' = [closed EXCEPT ![p] = TRUE]
    /\ UNCHANGED <<is_server, hs_step, private_key, public_key, their_public,
                   shared_secret, keystream, inbox, lines_typed, hs_log, sent,
                   shown, mod_exp_memo, calls, wire, pending, accepts,
                   lines_read>>

\* The rest of diffie_hellman_exchange and of its caller up to the chat loop:
\* the shared secret their_public^private mod p, the generator seeded with it,
\* the preview of its next 20 bytes.
Establish(p) ==
    /\ pc[p] = "secret"
    /\ LET secret == ModExpP(their_public[p], private_key[p])
       IN  /\ shared_secret' = [shared_secret EXCEPT ![p] = secret]
           /\ keystream' =
                 [keystream EXCEPT
                     ![p] = peek_bytes(KeystreamGenerator_new(secret), 20).ks]
    /\ pc' = [pc EXCEPT ![p] = "chat"]
    /\ UNCHANGED <<is_server, hs_step, private_key, public_key, their_public,
                   inbox, closed, lines_typed, hs_log, sent, shown,
                   mod_exp_memo, calls,
                   wire, pending, accepts, lines_read>>

\* One turn of the connector's loop over stdin.lock().lines(): a line that is
\* empty after trimming is skipped, any other is encrypted as typed and written
\* as one line of hex.
ClientLine ==
    /\ pc["client"] = "chat"
    /\ lines_typed < MaxLines
    /\ lines_typed' = lines_typed + 1
    /\ \E message \in InputLines :
          /\ IsUtf8(message)
          /\ IF trim(message) = <<>>
             THEN UNCHANGED <<keystream, inbox, sent, wire>>
             ELSE LET key   == key_bytes(keystream["client"],
                                         Min(Len(message), 4))
                      r     == xor_cipher(message, keystream["client"])
                      frame == hex_encode(r.out) \o <<Newline>>
                  IN  /\ keystream' = [keystream EXCEPT !["client"] = r.ks]
                      /\ inbox' = [inbox EXCEPT !["server"] = @ \o frame]
                      /\ wire' = [wire EXCEPT !["client"] = @ \o frame]
                      /\ sent' = Append(sent, [plain |-> message, cipher |-> r.out,
                                               ks |-> r.ks, key |-> key])
    /\ UNCHANGED <<pc, is_server, hs_step, private_key, public_key,
                   their_public, shared_secret, closed, hs_log, shown,
                   mod_exp_memo, calls,
                   pending, accepts, lines_read>>

\* The next line of stdin is no UTF-8: lines() yields an error, `line?`
\* returns it, run_client returns and its stream is dropped.
ClientBadLine ==
    /\ pc["client"] = "chat"
    /\ lines_typed < MaxLines
    /\ \E message \in InputLines : ~IsUtf8(message)
    /\ lines_typed' = lines_typed + 1
    /\ pc' = [pc EXCEPT !["client"] = "error"]
    /\ closed' = [closed EXCEPT !["client"] = TRUE]
    /\ UNCHANGED <<is_server, hs_step, private_key, public_key, their_public,
                   shared_secret, keystream, inbox, hs_log, sent, shown,
                   mod_exp_memo, calls, wire, pending, accepts, lines_read>>

\* A turn of the connector's loop whose write_all or flush fails, which it
\* may once the peer has closed: the line is encrypted, the error returned,
\* run_client returns and its stream is dropped.
ClientWriteFail ==
    /\ pc["client"] = "chat"
    /\ lines_typed < MaxLines
    /\ closed["server"]
    /\ \E message \in InputLines :
          /\ IsUtf8(message)
          /\ trim(message) # <<>>
          /\ LET key == key_bytes(keystream["client"], Min(Len(message), 4))
                 r   == xor_cipher(message, keystream["client"])
             IN  /\ keystream' = [keystream EXCEPT !["client"] = r.ks]
                 /\ sent' = Append(sent, [plain |-> message, cipher |-> r.out,
                                          ks |-> r.ks, key |-> key])
    /\ lines_typed' = lines_typed + 1
    /\ pc' = [pc EXCEPT !["client"] = "error"]
    /\ closed' = [closed EXCEPT !["client"] = TRUE]
    /\ UNCHANGED <<is_server, hs_step, private_key, public_key, their_public,
                   shared_secret, inbox, hs_log, shown, mod_exp_memo, calls,
                   wire, pending, accepts, lines_read>>

\* stdin reaches end of stream: the loop ends, run_client returns and its
\* stream is dropped.
ClientEof ==
    /\ pc["client"] = "chat"
    /\ pc' = [pc EXCEPT !["client"] = "exit"]
    /\ closed' = [closed EXCEPT !["client"] = TRUE]
    /\ UNCHANGED <<is_server, hs_step, private_key, public_key, their_public,
                   shared_secret, keystream, inbox, lines_typed, hs_log, sent,
                   shown, mod_exp_memo, calls,
                   wire, pending, accepts, lines_read>>

\* The number of bytes reader.read_line returns on buf: through the first
\* newline, or all of buf when the peer has closed before one.
LineLength(buf) ==
    IF NewlineAt(buf, 1) > 0 THEN NewlineAt(buf, 1) ELSE Len(buf)

\* One turn of the listener's loop on a line of n > 0 bytes: a line that is
\* empty after trimming, or that does not decode to at least one byte, is
\* skipped; any other is decrypted and shown.
ServerLine ==
    /\ pc["server"] = "chat"
    /\ NewlineAt(inbox["server"], 1) > 0 \/ closed["client"]
    /\ LineLength(inbox["server"]) > 0
    /\ IsUtf8(SubSeq(inbox["server"], 1, LineLength(inbox["server"])))
    /\ LET n         == LineLength(inbox["server"])
           line      == SubSeq(inbox["server"], 1, n)
           encrypted == hex_decode_or_default(trim(line))
       IN  /\ inbox' = [inbox EXCEPT !["server"] = SubSeq(@, n + 1, Len(@))]
           /\ lines_read' = lines_read + 1
           /\ IF trim(line) # <<>> /\ encrypted # <<>>
              THEN LET key == key_bytes(keystream["server"],
                                        Min(Len(encrypted), 3))
                       r   == xor_cipher(encrypted, keystream["server"])
                   IN  /\ keystream' = [keystream EXCEPT !["server"] = r.ks]
                       /\ shown' = Append(shown, [plain |-> r.out,
                                                  cipher |-> encrypted,
                                                  ks |-> r.ks,
                                                  sent_then |-> Len(sent),
                                                  key |-> key])
              ELSE UNCHANGED <<keystream, shown>>
    /\ UNCHANGED <<pc, is_server, hs_step, private_key, public_key,
                   their_public, shared_secret, closed, lines_typed, hs_log,
                   sent, mod_exp_memo, calls,
                   wire, pending, accepts>>

\* reader.read_line on a line of n > 0 bytes that are no UTF-8: it takes the
\* bytes and returns an error, `?` returns it, run_server returns and its
\* stream is dropped.
ServerReadError ==
    /\ pc["server"] = "chat"
    /\ NewlineAt(inbox["server"], 1) > 0 \/ closed["client"]
    /\ LineLength(inbox["server"]) > 0
    /\ ~IsUtf8(SubSeq(inbox["server"], 1, LineLength(inbox["server"])))
    /\ inbox' = [inbox EXCEPT
                    !["server"] = SubSeq(@, LineLength(@) + 1, Len(@))]
    /\ pc' = [pc EXCEPT !["server"] = "error"]
    /\ closed' = [closed EXCEPT !["server"] = TRUE]
    /\ UNCHANGED <<is_server, hs_step, private_key, public_key, their_public,
                   shared_secret, keystream, lines_typed, hs_log, sent, shown,
                   mod_exp_memo, calls, wire, pending, accepts, lines_read>>

\* A variant in which the listener returns as soon as the peer has closed,
\* whatever is left to read; C27 fails for it.
ServerEofEarly ==
    /\ pc["server"] = "chat"
    /\ closed["client"]
    /\ pc' = [pc EXCEPT !["server"] = "exit"]
    /\ closed' = [closed EXCEPT !["server"] = TRUE]
    /\ UNCHANGED <<is_server, hs_step, private_key, public_key, their_public,
                   shared_secret, keystream, inbox, lines_typed, hs_log, sent,
                   shown, mod_exp_memo, calls, wire, pending, accepts,
                   lines_read>>

\* A variant in which the listener goes back to accept when the peer has
\* closed; C20 fails for it.
ServerEofAcceptAgain ==
    /\ pc["server"] = "chat"
    /\ closed["client"]
    /\ inbox["server"] = <<>>
    /\ pc' = [pc EXCEPT !["server"] = "accept"]
    /\ UNCHANGED <<is_server, hs_step, private_key, public_key, their_public,
                   shared_secret, keystream, inbox, closed, lines_typed,
                   hs_log, sent, shown, mod_exp_memo, calls, wire, pending,
                   accepts, lines_read>>

\* A variant in which the listener writes an empty line before it returns;
\* C17 fails for it.
ServerEofBye ==
    /\ pc["server"] = "chat"
    /\ closed["client"]
    /\ inbox["server"] = <<>>
    /\ wire' = [wire EXCEPT !["server"] = @ \o <<Newline>>]
    /\ inbox' = [inbox EXCEPT !["client"] = @ \o <<Newline>>]
    /\ pc' = [pc EXCEPT !["server"] = "exit"]
    /\ closed' = [closed EXCEPT !["server"] = TRUE]
    /\ UNCHANGED <<is_server, hs_step, private_key, public_key, their_public,
                   shared_secret, keystream, lines_typed, hs_log, sent, shown,
                   mod_exp_memo, calls, pending, accepts, lines_read>>

\* reader.read_line returns 0: the peer has closed and nothing is left to
\* read.  The loop breaks and run_server returns.
ServerEof ==
    /\ pc["server"] = "chat"
    /\ closed["client"]
    /\ inbox["server"] = <<>>
    /\ pc' = [pc EXCEPT !["server"] = "exit"]
    /\ closed' = [closed EXCEPT !["server"] = TRUE]
    /\ UNCHANGED <<is_server, hs_step, private_key, public_key, their_public,
                   shared_secret, keystream, inbox, lines_typed, hs_log, sent,
                   shown, mod_exp_memo, calls,
                   wire, pending, accepts, lines_read>>

Next ==
    \/ Connect
    \/ Accept
    \/ \E p \in Peers : KeyGen(p)
    \/ \E p \in Peers : HsReceive(p)
    \/ \E p \in Peers : HsSend(p)
    \/ \E p \in Peers : Establish(p)
    \/ ClientLine
    \/ ClientBadLine
    \/ ClientEof
    \/ ServerLine
    \/ ServerEof

Spec == Init /\ [][Next]_vars

\* Each process runs whenever it is not blocked in a call: a step of the
\* handshake that can be taken is taken.  Nothing is assumed of the operator
\* at the connector's stdin.
FairSpec ==
    /\ Spec
    /\ WF_vars(Connect)
    /\ WF_vars(Accept)
    /\ \A p \in Peers :
          WF_vars(KeyGen(p)) /\ WF_vars(HsReceive(p)) /\ WF_vars(HsSend(p))

\* The listener runs whenever it is not blocked in a call: it computes its
\* secret once it has the peer's public value, reads a line when one has
\* arrived or the peer has closed, and leaves its loop on a read of zero
\* bytes.  Nothing is assumed of the connector or of its operator.
\* Weak fairness is stated for Establish and ServerLine with their guards
\* written out, which is when each is enabled: each changes a variable
\* whenever its guard holds.
EstablishEnabled(p) == pc[p] = "secret"

ServerLineEnabled ==
    /\ pc["server"] = "chat"
    /\ NewlineAt(inbox["server"], 1) > 0 \/ closed["client"]
    /\ LineLength(inbox["server"]) > 0
    /\ IsUtf8(SubSeq(inbox["server"], 1, LineLength(inbox["server"])))

FairListenerSpec ==
    /\ Spec
    /\ []<>(~EstablishEnabled("server")) \/ []<><<Establish("server")>>_vars
    /\ []<>(~ServerLineEnabled) \/ []<><<ServerLine>>_vars
    /\ WF_vars(ServerEof)

\* The program with diffie_hellman_exchange called with either flag at either
\* call site: the flags of run_server and run_client, and every reversal.
InitAnyOrder ==
    /\ \E flags \in [Peers -> BOOLEAN] : ProtocolInit(flags)
    /\ mod_exp_memo = ModExpMemo
    /\ NoCalls

SpecAnyOrder == InitAnyOrder /\ [][Next]_vars

-----------------------------------------------------------------------------
(* One end is this program, the other some other program on the stream.    *)

\* How many bytes the other program writes after its public value.
MaxRawBytes == 4

\* How many further programs connect to the listener.
MaxExtra == 1

\* Public values the other program sends: g itself.
RawPublics == {GU64}

\* What the other program sends in place of a public value before it closes:
\* three bytes.
RawShort == <<0, 0, 1>>

\* What the other program writes afterwards: "6a\n", "zz\n", "6\n", "\n",
\* FF "\n", "6a" with no newline, "6A\r\n".
RawLines ==
    { <<54, 97, 10>>, <<122, 122, 10>>, <<54, 10>>, <<10>>, <<255, 10>>,
      <<54, 97>>, <<54, 65, 13, 10>> }

\* Either the connector or the listener is another program: it is at "raw"
\* once its end of the stream exists.
InitAnyPeer ==
    /\ \E other \in Peers :
          ProtocolInitAt(
              [server |-> IF other = "server" THEN "raw" ELSE "accept",
               client |-> IF other = "client" THEN "raw_connect" ELSE "connect"],
              [server |-> TRUE, client |-> FALSE])
    /\ mod_exp_memo = ModExpMemo
    /\ NoCalls

\* The other program connects to the listener.
RawConnect ==
    /\ pc["client"] = "raw_connect"
    /\ pc' = [pc EXCEPT !["client"] = "raw"]
    /\ pending' = pending + 1
    /\ UNCHANGED <<is_server, hs_step, private_key, public_key, their_public,
                   shared_secret, keystream, inbox, closed, lines_typed,
                   hs_log, sent, shown, mod_exp_memo, calls, wire, accepts,
                   lines_read>>

\* The other program's end of the stream exists and is open.
RawOpen(p) ==
    /\ pc[p] = "raw"
    /\ ~closed[p]
    /\ pc[Other(p)] \notin {"connect", "accept"}

\* The other program writes bytes.
RawWrite(p, bytes) ==
    /\ inbox' = [inbox EXCEPT ![Other(p)] = @ \o bytes]
    /\ wire' = [wire EXCEPT ![p] = @ \o bytes]
    /\ UNCHANGED <<pc, is_server, hs_step, private_key, public_key,
                   their_public, shared_secret, keystream, closed, lines_typed,
                   hs_log, sent, shown, mod_exp_memo, calls, pending, accepts,
                   lines_read>>

\* It writes 8 bytes of a public value, or fewer.
RawHandshake(p) ==
    /\ RawOpen(p)
    /\ wire[p] = <<>>
    /\ \E bytes \in {to_be_bytes(v) : v \in RawPublics} \cup {RawShort} :
          RawWrite(p, bytes)

\* It writes a line, or a part of one.
RawLine(p) ==
    /\ RawOpen(p)
    /\ Len(wire[p]) >= 8
    /\ \E bytes \in RawLines :
          /\ Len(wire[p]) + Len(bytes) <= 8 + MaxRawBytes
          /\ RawWrite(p, bytes)

\* It closes its end.
RawClose(p) ==
    /\ RawOpen(p)
    /\ closed' = [closed EXCEPT ![p] = TRUE]
    /\ UNCHANGED <<pc, is_server, hs_step, private_key, public_key,
                   their_public, shared_secret, keystream, inbox, lines_typed,
                   hs_log, sent, shown, mod_exp_memo, calls, wire, pending,
                   accepts, lines_read>>

\* A further program connects to the listener, after the first connection.
ExtraConnect ==
    /\ pc["server"] # "raw"
    /\ pc["client"] \notin {"connect", "raw_connect"}
    /\ pending + accepts < 1 + MaxExtra
    /\ pending' = pending + 1
    /\ UNCHANGED <<pc, is_server, hs_step, private_key, public_key,
                   their_public, shared_secret, keystream, inbox, closed,
                   lines_typed, hs_log, sent, shown, mod_exp_memo, calls, wire,
                   accepts, lines_read>>

NextAnyPeer ==
    \/ Connect
    \/ Accept
    \/ \E p \in Peers : KeyGen(p)
    \/ \E p \in Peers : HsReceive(p)
    \/ \E p \in Peers : HsSend(p)
    \/ \E p \in Peers : HsReceiveFail(p)
    \/ \E p \in Peers : HsSendFail(p)
    \/ \E p \in Peers : Establish(p)
    \/ ClientLine
    \/ ClientBadLine
    \/ ClientWriteFail
    \/ ClientEof
    \/ ServerLine
    \/ ServerReadError
    \/ ServerEof
    \/ RawConnect
    \/ \E p \in Peers : RawHandshake(p)
    \/ \E p \in Peers : RawLine(p)
    \/ \E p \in Peers : RawClose(p)
    \/ ExtraConnect

SpecAnyPeer == InitAnyPeer /\ [][NextAnyPeer]_vars

-----------------------------------------------------------------------------
(* mod_exp called on its own.                                              *)

\* The largest of the small exponents of a call.
MaxExp == 5

\* Exponents: 0..MaxExp, one of 61 bits, and 2^64 - 1, every bit of which is
\* set.
MeExps ==
    {NatLimbs(e, 8) : e \in 0..MaxExp}
        \cup {HexLit(<<\h18, \hE5, \hB2, \hA3, \hC4, \hD5, \hE6, \hF7>>),
              HexLit(<<\hFF, \hFF, \hFF, \hFF, \hFF, \hFF, \hFF, \hFF>>)}

\* Bases: 0, 1, 2, 2^32 + 3, p - 1, 2^64 - 1.
MeBases ==
    { NatLimbs(0, 8), NatLimbs(1, 8), NatLimbs(2, 8),
      <<3, 0, 0, 0, 1, 0, 0, 0>>,
      HexLit(<<\hD8, \h7F, \hA3, \hE2, \h91, \hB4, \hC7, \hF2>>),
      HexLit(<<\hFF, \hFF, \hFF, \hFF, \hFF, \hFF, \hFF, \hFF>>) }

\* Moduli: 1, 2, 3, 2^32, p, 2^64 - 1.
MeModuli ==
    { NatLimbs(1, 8), NatLimbs(2, 8), NatLimbs(3, 8), LCG_M, P,
      HexLit(<<\hFF, \hFF, \hFF, \hFF, \hFF, \hFF, \hFF, \hFF>>) }

InitModExp ==
    /\ ProtocolInit([server |-> TRUE, client |-> FALSE])
    /\ mod_exp_memo = {}
    /\ me \in [base : MeBases, exp : MeExps, modulus : MeModuli, ret : {None}]
    /\ gens = None
    /\ cx = None

\* let r = mod_exp(base, exp, modulus)
ModExpCall ==
    /\ me.ret = None
    /\ me' = [me EXCEPT !.ret = mod_exp(me.base, me.exp, me.modulus)]
    /\ UNCHANGED <<pc, is_server, hs_step, private_key, public_key,
                   their_public, shared_secret, keystream, inbox, closed,
                   lines_typed, hs_log, sent, shown, mod_exp_memo, gens, cx,
                   wire, pending, accepts, lines_read>>

NextModExp == ModExpCall

SpecModExp == InitModExp /\ [][NextModExp]_vars

-----------------------------------------------------------------------------
(* mod_exp, one iteration of its loop at a time.                           *)

\* A call of mod_exp that has not started: loop holds the locals once it has.
InitModExpSteps ==
    /\ ProtocolInit([server |-> TRUE, client |-> FALSE])
    /\ mod_exp_memo = {}
    /\ me \in [base : MeBases, exp : MeExps, modulus : MeModuli,
                loop : {None}, ret : {None}]
    /\ gens = None
    /\ cx = None

\* The declarations and `base %= modulus`.
MeEnter ==
    /\ me.loop = None
    /\ me' = [me EXCEPT !.loop = ModExpEntry(me.base, me.exp, me.modulus)]
    /\ UNCHANGED <<pc, is_server, hs_step, private_key, public_key,
                   their_public, shared_secret, keystream, inbox, closed,
                   lines_typed, hs_log, sent, shown, mod_exp_memo, gens, cx,
                   wire, pending, accepts, lines_read>>

\* `while exp > 0` holds: one iteration.
MeIterate ==
    /\ me.loop # None
    /\ ~IsZero(me.loop.exp)
    /\ me' = [me EXCEPT !.loop = ModExpIter(me.loop)]
    /\ UNCHANGED <<pc, is_server, hs_step, private_key, public_key,
                   their_public, shared_secret, keystream, inbox, closed,
                   lines_typed, hs_log, sent, shown, mod_exp_memo, gens, cx,
                   wire, pending, accepts, lines_read>>

\* `while exp > 0` fails: `result as u64` is returned.
MeReturn ==
    /\ me.loop # None
    /\ IsZero(me.loop.exp)
    /\ me.ret = None
    /\ me' = [me EXCEPT !.ret = AsU64(me.loop.result)]
    /\ UNCHANGED <<pc, is_server, hs_step, private_key, public_key,
                   their_public, shared_secret, keystream, inbox, closed,
                   lines_typed, hs_log, sent, shown, mod_exp_memo, gens, cx,
                   wire, pending, accepts, lines_read>>

NextModExpSteps ==
    \/ MeEnter
    \/ MeIterate
    \/ MeReturn

SpecModExpSteps == InitModExpSteps /\ [][NextModExpSteps]_vars

-----------------------------------------------------------------------------
(* Two KeystreamGenerators on their own.                                   *)

\* How many times next_byte is called on each generator.
MaxCalls == 3

\* The largest count passed to peek_bytes.
MaxPeek == 2

\* Seeds: 0, 1, one of 61 bits, 2^64 - 1.
Seeds ==
    { NatLimbs(0, 8),
      NatLimbs(1, 8),
      HexLit(<<\h18, \hE5, \hB2, \hA3, \hC4, \hD5, \hE6, \hF7>>),
      HexLit(<<\hFF, \hFF, \hFF, \hFF, \hFF, \hFF, \hFF, \hFF>>) }

Gens == {1, 2}

\* Two generators made by KeystreamGenerator::new(seed); out is the history of
\* the bytes next_byte has returned on each, peeked the last call of
\* peek_bytes: on which generator, after how many next_byte calls, with which
\* count, and the bytes it returned.
InitKeystream ==
    /\ ProtocolInit([server |-> TRUE, client |-> FALSE])
    /\ mod_exp_memo = {}
    /\ me = None
    /\ \E seed \in Seeds :
          gens = [seed   |-> seed,
                  ks     |-> [g \in Gens |-> KeystreamGenerator_new(seed)],
                  out    |-> [g \in Gens |-> <<>>],
                  peeked |-> None]
    /\ cx = None

\* let b = ks.next_byte()
KsNextByte(g) ==
    /\ Len(gens.out[g]) < MaxCalls
    /\ LET r == next_byte(gens.ks[g])
       IN  gens' = [gens EXCEPT !.ks[g] = r.ks, !.out[g] = Append(@, r.byte)]
    /\ UNCHANGED <<pc, is_server, hs_step, private_key, public_key,
                   their_public, shared_secret, keystream, inbox, closed,
                   lines_typed, hs_log, sent, shown, mod_exp_memo, me, cx,
                   wire, pending, accepts, lines_read>>

\* let bytes = ks.peek_bytes(count)
KsPeek(g, count) ==
    /\ LET r == peek_bytes(gens.ks[g], count)
       IN  gens' = [gens EXCEPT
                       !.ks[g] = r.ks,
                       !.peeked = [g |-> g, at |-> Len(gens.out[g]),
                                   count |-> count, bytes |-> r.bytes]]
    /\ UNCHANGED <<pc, is_server, hs_step, private_key, public_key,
                   their_public, shared_secret, keystream, inbox, closed,
                   lines_typed, hs_log, sent, shown, mod_exp_memo, me, cx,
                   wire, pending, accepts, lines_read>>

NextKeystream ==
    \/ \E g \in Gens : KsNextByte(g)
    \/ \E g \in Gens, count \in 0..MaxPeek : KsPeek(g, count)

SpecKeystream == InitKeystream /\ [][NextKeystream]_vars

-----------------------------------------------------------------------------
(* Two KeystreamGenerators over more than 256 calls.                       *)

\* How many calls of next_byte are made on each generator past the 256th.
MaxWrap == 3

\* Pairs of seeds with the same low 8 bits: 1 and 257, one of 61 bits and
\* its low byte, 2^64 - 1 and 255, 0 and 2^32.
PeriodSeeds ==
    { <<NatLimbs(1, 8), <<1, 1, 0, 0, 0, 0, 0, 0>> >>,
      <<HexLit(<<\h18, \hE5, \hB2, \hA3, \hC4, \hD5, \hE6, \hF7>>),
        NatLimbs(247, 8)>>,
      <<HexLit(<<\hFF, \hFF, \hFF, \hFF, \hFF, \hFF, \hFF, \hFF>>),
        NatLimbs(255, 8)>>,
      <<NatLimbs(0, 8), LCG_M>> }

\* Two generators made by KeystreamGenerator::new, one on each seed of a
\* pair; out is the history of the bytes next_byte has returned on each.
InitPeriod ==
    /\ ProtocolInit([server |-> TRUE, client |-> FALSE])
    /\ mod_exp_memo = {}
    /\ me = None
    /\ \E seeds \in PeriodSeeds :
          gens = [seeds |-> seeds,
                  ks    |-> [g \in Gens |-> KeystreamGenerator_new(seeds[g])],
                  out   |-> [g \in Gens |-> <<>>]]
    /\ cx = None

\* let a = first.next_byte(); let b = second.next_byte();
PeriodStep ==
    /\ Len(gens.out[1]) < 256 + MaxWrap
    /\ LET a == next_byte(gens.ks[1])
           b == next_byte(gens.ks[2])
       IN  gens' = [gens EXCEPT
                       !.ks = [g \in Gens |-> IF g = 1 THEN a.ks ELSE b.ks],
                       !.out = [g \in Gens |->
                                   Append(gens.out[g],
                                          IF g = 1 THEN a.byte ELSE b.byte)]]
    /\ UNCHANGED <<pc, is_server, hs_step, private_key, public_key,
                   their_public, shared_secret, keystream, inbox, closed,
                   lines_typed, hs_log, sent, shown, mod_exp_memo, me, cx,
                   wire, pending, accepts, lines_read>>

NextPeriod == PeriodStep

SpecPeriod == InitPeriod /\ [][NextPeriod]_vars

-----------------------------------------------------------------------------
(* A message through xor_cipher and back, on its own.                      *)

\* How many bytes each generator may have returned before the message.
MaxSkip == 2

\* Messages: "", one zero byte, "hi", and three bytes with every bit in use.
Messages == {<<>>, <<0>>, <<104, 105>>, <<255, 0, 128>>}

Sides == {"enc", "dec"}

\* Two generators made by KeystreamGenerator::new(seed), one to encrypt the
\* message and one to decrypt it; used counts the bytes each has returned
\* before xor_cipher is applied with it.
InitCipher ==
    /\ ProtocolInit([server |-> TRUE, client |-> FALSE])
    /\ mod_exp_memo = {}
    /\ me = None
    /\ gens = None
    /\ \E seed \in Seeds, message \in Messages :
          cx = [seed       |-> seed,
                message    |-> message,
                ks         |-> [d \in Sides |-> KeystreamGenerator_new(seed)],
                used       |-> [d \in Sides |-> 0],
                stage      |-> "plain",
                ciphertext |-> <<>>,
                decrypted  |-> <<>>]

\* ks.next_byte() on a generator that has not yet been through xor_cipher.
CxSkip(d) ==
    /\ cx.used[d] < MaxSkip
    /\ IF d = "enc" THEN cx.stage = "plain" ELSE cx.stage # "decrypted"
    /\ cx' = [cx EXCEPT !.ks[d] = next_byte(@).ks, !.used[d] = @ + 1]
    /\ UNCHANGED <<pc, is_server, hs_step, private_key, public_key,
                   their_public, shared_secret, keystream, inbox, closed,
                   lines_typed, hs_log, sent, shown, mod_exp_memo, me, gens,
                   wire, pending, accepts, lines_read>>

\* let ciphertext = xor_cipher(message, &mut enc)
CxEncrypt ==
    /\ cx.stage = "plain"
    /\ LET r == xor_cipher(cx.message, cx.ks["enc"])
       IN  cx' = [cx EXCEPT !.ks["enc"] = r.ks, !.ciphertext = r.out,
                            !.stage = "encrypted"]
    /\ UNCHANGED <<pc, is_server, hs_step, private_key, public_key,
                   their_public, shared_secret, keystream, inbox, closed,
                   lines_typed, hs_log, sent, shown, mod_exp_memo, me, gens,
                   wire, pending, accepts, lines_read>>

\* let decrypted = xor_cipher(ciphertext, &mut dec)
CxDecrypt ==
    /\ cx.stage = "encrypted"
    /\ LET r == xor_cipher(cx.ciphertext, cx.ks["dec"])
       IN  cx' = [cx EXCEPT !.ks["dec"] = r.ks, !.decrypted = r.out,
                            !.stage = "decrypted"]
    /\ UNCHANGED <<pc, is_server, hs_step, private_key, public_key,
                   their_public, shared_secret, keystream, inbox, closed,
                   lines_typed, hs_log, sent, shown, mod_exp_memo, me, gens,
                   wire, pending, accepts, lines_read>>

NextCipher ==
    \/ \E d \in Sides : CxSkip(d)
    \/ CxEncrypt
    \/ CxDecrypt

SpecCipher == InitCipher /\ [][NextCipher]_vars

-----------------------------------------------------------------------------
(* A session in which one frame is lost between connector and listener.    *)

\* How many messages the connector sends.
MaxFrames == 2

\* Messages: one byte, "hi", and 256 bytes "a".
DropMessages == {<<7>>, <<104, 105>>, SubSeq([i \in 1..256 |-> 97], 1, 256)}

\* Shared secrets: 1 and one of 61 bits.
DropSeeds ==
    { NatLimbs(1, 8),
      HexLit(<<\h18, \hE5, \hB2, \hA3, \hC4, \hD5, \hE6, \hF7>>) }

\* The connector's and the listener's generators, made from the same shared
\* secret; sent are the plaintexts in order, flight the frames written and
\* not yet read, each with its number and its ciphertext bytes (the hex
\* coding of a frame gives these bytes back), dropped the number of the frame
\* that was lost, 0 when none was, and received what the listener decrypted.
InitDrop ==
    /\ ProtocolInit([server |-> TRUE, client |-> FALSE])
    /\ mod_exp_memo = {}
    /\ me = None
    /\ gens = None
    /\ \E seed \in DropSeeds :
          cx = [seed     |-> seed,
                ks       |-> [d \in Sides |-> KeystreamGenerator_new(seed)],
                sent     |-> <<>>,
                flight   |-> <<>>,
                dropped  |-> 0,
                received |-> <<>>]

\* The connector encrypts a message and writes its frame.
DropSend ==
    /\ Len(cx.sent) < MaxFrames
    /\ \E message \in DropMessages :
          LET r == xor_cipher(message, cx.ks["enc"])
          IN  cx' = [cx EXCEPT
                        !.ks["enc"] = r.ks,
                        !.sent = Append(@, message),
                        !.flight = Append(@, [n |-> Len(cx.sent) + 1,
                                              cipher |-> r.out])]
    /\ UNCHANGED <<pc, is_server, hs_step, private_key, public_key,
                   their_public, shared_secret, keystream, inbox, closed,
                   lines_typed, hs_log, sent, shown, mod_exp_memo, me, gens,
                   wire, pending, accepts, lines_read>>

\* One frame is lost before the listener reads it; this happens once.
DropFrame ==
    /\ cx.dropped = 0
    /\ cx.flight # <<>>
    /\ cx' = [cx EXCEPT !.dropped = Head(cx.flight).n, !.flight = Tail(@)]
    /\ UNCHANGED <<pc, is_server, hs_step, private_key, public_key,
                   their_public, shared_secret, keystream, inbox, closed,
                   lines_typed, hs_log, sent, shown, mod_exp_memo, me, gens,
                   wire, pending, accepts, lines_read>>

\* The listener reads the next frame and decrypts it.
DropReceive ==
    /\ cx.flight # <<>>
    /\ LET frame == Head(cx.flight)
           r     == xor_cipher(frame.cipher, cx.ks["dec"])
       IN  cx' = [cx EXCEPT
                     !.ks["dec"] = r.ks,
                     !.flight = Tail(@),
                     !.received = Append(@, [n |-> frame.n,
                                             decrypted |-> r.out])]
    /\ UNCHANGED <<pc, is_server, hs_step, private_key, public_key,
                   their_public, shared_secret, keystream, inbox, closed,
                   lines_typed, hs_log, sent, shown, mod_exp_memo, me, gens,
                   wire, pending, accepts, lines_read>>

NextDrop ==
    \/ DropSend
    \/ DropFrame
    \/ DropReceive

SpecDrop == InitDrop /\ [][NextDrop]_vars

-----------------------------------------------------------------------------
(* Properties of the handshake and of the chat.                            *)

\* Both transfers of the process's exchange are done.
HsDone(p) == hs_step[p] = 2

\* The process is in read_exact and fewer than 8 bytes are there for it.
HsBlockedOnRead(p) ==
    /\ pc[p] = "exchange"
    /\ HsNextOp(p) = "receive"
    /\ Len(inbox[p]) < 8

\* Both processes wait in read_exact for bytes the other has not sent.
HsDeadlock == \A p \in Peers : HsBlockedOnRead(p)

IsPrefix(s, t) == Len(s) <= Len(t) /\ SubSeq(t, 1, Len(s)) = s

\* The process has computed its shared secret.
HasSecret(p) == pc[p] \in {"chat", "exit"}

\* C1: handshake agreement.  Once both sides have computed their secrets, each
\* has read the other's public value as it was computed, and the secret the
\* listener computed from it equals the secret the connector computed.
C1_HandshakeAgreement ==
    (HasSecret("server") /\ HasSecret("client")) =>
        /\ \A p \in Peers : their_public[p] = public_key[Other(p)]
        /\ shared_secret["server"] # None
        /\ shared_secret["server"] = shared_secret["client"]

\* Both secrets are computed, from two different private keys, one of them of
\* 61 bits.
C1_Witness ==
    /\ HasSecret("server") /\ HasSecret("client")
    /\ private_key["server"] = KeyPool[2]
    /\ private_key["client"] = KeyPool[3]

\* C2: end-to-end lockstep.  Under every interleaving of the connector's sends
\* and the listener's reads, the k-th message the listener decrypts is the k-th
\* message the connector encrypted, and the listener's generator after it is in
\* the state the connector's was in after sending it; before any message the
\* two generators are in the same state; and when the listener's loop has
\* ended it has decrypted every message.
C2_Lockstep ==
    /\ Len(shown) <= Len(sent)
    /\ \A k \in 1..Len(shown) :
          /\ shown[k].plain = sent[k].plain
          /\ shown[k].ks = sent[k].ks
    /\ (\A p \in Peers : pc[p] \in {"chat", "exit"}) /\ Len(shown) = Len(sent)
          => keystream["server"] = keystream["client"]
    /\ pc["server"] = "exit" => Len(shown) = Len(sent)

\* The listener has decrypted two different messages, and the connector had
\* sent both before the listener read the first.
C2_Witness ==
    /\ Len(shown) = 2
    /\ shown[1].plain # shown[2].plain
    /\ shown[1].sent_then = 2

\* C3: handshake message order.  The listener's transfers are a receive of 8
\* bytes and then a send of 8 bytes, the connector's a send of 8 bytes and then
\* a receive of 8 bytes; each process has done none of them before its
\* exchange, exactly as many as its step counts during it, and both after it;
\* and when the listener has sent, what it had read is the connector's whole
\* public value.
C3_HandshakeOrder ==
    /\ IsPrefix(hs_log["server"], << <<"receive", 8>>, <<"send", 8>> >>)
    /\ IsPrefix(hs_log["client"], << <<"send", 8>>, <<"receive", 8>> >>)
    /\ \A p \in Peers :
          /\ Len(hs_log[p]) = hs_step[p]
          /\ pc[p] \in {"accept", "connect", "keygen"} => hs_step[p] = 0
          /\ pc[p] = "exchange" => hs_step[p] < 2
          /\ pc[p] \in {"secret", "chat", "exit"} => hs_step[p] = 2
    /\ Len(hs_log["server"]) = 2 => their_public["server"] = public_key["client"]

\* Both processes have done both transfers.
C3_Witness == Len(hs_log["server"]) = 2 /\ Len(hs_log["client"]) = 2

\* C4: handshake deadlock freedom.  In no reachable state do both processes
\* wait in read_exact with fewer than 8 bytes there for either, and under fair
\* scheduling both exchanges are eventually done.
C4_NoHandshakeDeadlock ==
    /\ [](~HsDeadlock)
    /\ <>(HsDone("server") /\ HsDone("client"))

\* The connector waits in read_exact while the listener, which has read the
\* connector's public value, has not yet sent its own.
C4_Witness ==
    /\ HsBlockedOnRead("client")
    /\ pc["server"] = "exchange" /\ hs_step["server"] = 1

\* C5 as amended: with the connector made to receive first and the listener
\* unchanged, no transfer ever happens and nothing is ever in flight, so once
\* both are in the exchange both wait in read_exact for ever; with the listener
\* made to send first and the connector unchanged, the two never both wait in
\* read_exact.
C5_ReversedConnectorDeadlocks ==
    /\ (is_server["server"] /\ is_server["client"]) =>
          \A p \in Peers : hs_step[p] = 0 /\ inbox[p] = <<>>
    /\ (~is_server["server"] /\ ~is_server["client"]) => ~HsDeadlock

\* The connector receives first, as the listener does, and both wait.
C5_Witness == is_server["server"] /\ is_server["client"] /\ HsDeadlock

\* C5 as stated: with the order reversed on either one side, the exchanges are
\* never both done.
C5_EitherReversalDeadlocks ==
    (is_server["server"] = is_server["client"]) =>
        ~(HsDone("server") /\ HsDone("client"))

\* base^exp in full, on w limbs: exp multiplications, nothing reduced.
RECURSIVE PowW(_, _, _)
PowW(base, exp, w) ==
    IF exp = 0 THEN NatLimbs(1, w)
    ELSE MulW(PowW(base, exp - 1, w), Resize(base, w))

\* (base^exp) mod modulus for an exponent of one limb, from the full power:
\* base^exp < 2^(64 * exp).
RefModExp(base, exp, modulus) ==
    LET w == 8 * (exp[1] + 1)
    IN  AsU64(RemW(PowW(base, exp[1], w), Resize(modulus, w)))

\* Bit i of x, bit 0 the lowest.
BitAt(x, i) == (x[(i \div 8) + 1] \div (2 ^ (i % 8))) % 2

\* Exponentiation from the highest bit of the exponent down: s.r is base to
\* the bits of exp above bit s.i, modulo the modulus.
RECURSIVE RefBinaryLoop(_, _, _, _)
RefBinaryLoop(s, base, exp, modulus) ==
    IF s.i = 0 THEN s.r
    ELSE LET squared == RemW(MulW(s.r, s.r), modulus)
         IN  RefBinaryLoop([r |-> IF BitAt(exp, s.i - 1) = 1
                                  THEN RemW(MulW(squared, base), modulus)
                                  ELSE squared,
                            i |-> s.i - 1], base, exp, modulus)

\* (base^exp) mod modulus for any exponent, by the loop above.
RefModExpBinary(base, exp, modulus) ==
    LET m == AsU128(modulus)
    IN  AsU64(RefBinaryLoop([r |-> RemW(NatLimbs(1, 16), m), i |-> 8 * Sig(exp)],
                            RemW(AsU128(base), m), exp, m))

\* C6: mod_exp against the reference.  For every base, every exponent and
\* every modulus above 1, what mod_exp returns is base^exp modulo the modulus:
\* as exponentiation from the highest bit down computes it, and, for the
\* exponents 0..MaxExp, as the full power reduced once.
C6_ModExpCorrect ==
    (me # None /\ me.ret # None /\ me.modulus # NatLimbs(1, 8)) =>
        /\ me.ret = RefModExpBinary(me.base, me.exp, me.modulus)
        /\ Sig(me.exp) <= 1 => me.ret = RefModExp(me.base, me.exp, me.modulus)

\* mod_exp has returned on a base above 2^63, the exponent MaxExp and the
\* modulus p: its products need more than 64 bits.
C6_Witness ==
    /\ me # None /\ me.ret # None
    /\ me.base = HexLit(<<\hD8, \h7F, \hA3, \hE2, \h91, \hB4, \hC7, \hF2>>)
    /\ me.exp = NatLimbs(MaxExp, 8)
    /\ me.modulus = P

\* The generator and the bytes returned after n calls of next_byte on ks and
\* no other call.
RECURSIVE NextBytes(_, _)
NextBytes(ks, n) ==
    IF n = 0 THEN [ks |-> ks, out |-> <<>>]
    ELSE LET r    == next_byte(ks)
             rest == NextBytes(r.ks, n - 1)
         IN  [ks |-> rest.ks, out |-> <<r.byte>> \o rest.out]

\* C7: keystream determinism.  Whatever the interleaving of the calls on two
\* generators seeded alike and whatever peek_bytes calls were made on either,
\* the n-th byte of one is the n-th byte of the other, and after as many
\* next_byte calls the two are in the same state.
C7_KeystreamDeterminism ==
    /\ \A n \in 1..Min(Len(gens.out[1]), Len(gens.out[2])) :
          gens.out[1][n] = gens.out[2][n]
    /\ Len(gens.out[1]) = Len(gens.out[2]) => gens.ks[1] = gens.ks[2]

\* Both generators have returned MaxCalls bytes, not all of them equal, and
\* the last call of peek_bytes, for at least one byte, was on the first
\* generator before its last next_byte.
C7_Witness ==
    /\ Len(gens.out[1]) = MaxCalls /\ Len(gens.out[2]) = MaxCalls
    /\ gens.out[1][1] # gens.out[1][2]
    /\ gens.peeked # None
    /\ gens.peeked.g = 1 /\ gens.peeked.count > 0 /\ gens.peeked.at < MaxCalls

\* C8: peek_bytes never changes the generator.  After any calls of peek_bytes
\* among the calls of next_byte, the bytes next_byte has returned and the
\* state it has left are those of the same number of next_byte calls with no
\* call of peek_bytes at all.
C8_PeekNeverMutates ==
    \A g \in Gens :
        LET alone == NextBytes(KeystreamGenerator_new(gens.seed), Len(gens.out[g]))
        IN  gens.ks[g] = alone.ks /\ gens.out[g] = alone.out

\* peek_bytes was called with the largest count on a generator that had
\* returned a byte, and next_byte was called on that generator afterwards.
C8_Witness ==
    /\ gens.peeked # None
    /\ gens.peeked.count = MaxPeek
    /\ gens.peeked.at > 0
    /\ Len(gens.out[gens.peeked.g]) > gens.peeked.at

\* C9: what peek_bytes returns.  peek_bytes(count) returns count bytes, and
\* its i-th byte is the byte the i-th next_byte call after it returns.
C9_PeekIsNextBytes ==
    gens.peeked # None =>
        LET pk == gens.peeked
        IN  /\ Len(pk.bytes) = pk.count
            /\ \A i \in 1..pk.count :
                  pk.at + i <= Len(gens.out[pk.g]) =>
                      pk.bytes[i] = gens.out[pk.g][pk.at + i]

\* peek_bytes returned MaxPeek bytes, not all equal, on a generator that had
\* returned a byte, and next_byte has been called MaxPeek times since.
C9_Witness ==
    /\ gens.peeked # None
    /\ gens.peeked.count = MaxPeek
    /\ gens.peeked.at > 0
    /\ gens.peeked.bytes[1] # gens.peeked.bytes[MaxPeek]
    /\ Len(gens.out[gens.peeked.g]) = gens.peeked.at + MaxPeek

\* C10: cipher symmetry.  A message through xor_cipher with a generator
\* seeded s, and the result through xor_cipher with a second generator seeded
\* s that had returned as many bytes beforehand as the first, is the message
\* again, byte for byte.
C10_CipherSymmetry ==
    (cx.stage = "decrypted" /\ cx.used["enc"] = cx.used["dec"]) =>
        cx.decrypted = cx.message

\* A message of three bytes has gone through both generators, each of which
\* had returned MaxSkip bytes before, and its ciphertext differs from it.
C10_Witness ==
    /\ cx.stage = "decrypted"
    /\ cx.used["enc"] = MaxSkip /\ cx.used["dec"] = MaxSkip
    /\ Len(cx.message) = 3
    /\ cx.ciphertext # cx.message

\* The bytes of the first k messages of a history of the chat.
RECURSIVE BytesThrough(_, _)
BytesThrough(history, k) ==
    IF k = 0 THEN 0 ELSE BytesThrough(history, k - 1) + Len(history[k].cipher)

\* The k-th message of a history went through xor_cipher from input to output
\* on the generator seeded with secret: as many bytes out as in, each the
\* input byte XOR the keystream byte of its position in the session, and the
\* generator left as many steps from the seed as bytes have gone through.
XoredInPlace(history, k, secret, input, output) ==
    LET before == BytesThrough(history, k - 1)
        run    == NextBytes(KeystreamGenerator_new(secret), before + Len(input))
    IN  /\ Len(output) = Len(input)
        /\ \A i \in 1..Len(input) :
              output[i] = XorByte(input[i], run.out[before + i])
        /\ history[k].ks = run.ks

\* C11: xor_cipher and the keystream over a session.  Every message encrypted
\* or decrypted has as many bytes out as in, byte i being the input byte XOR
\* the next keystream byte, and each process's generator is always exactly as
\* many next_byte steps from its seed as the bytes of the messages the process
\* has encrypted or decrypted: nothing else moves it.
C11_KeystreamAccounting ==
    /\ \A k \in 1..Len(sent) :
          XoredInPlace(sent, k, shared_secret["client"],
                       sent[k].plain, sent[k].cipher)
    /\ \A k \in 1..Len(shown) :
          XoredInPlace(shown, k, shared_secret["server"],
                       shown[k].cipher, shown[k].plain)
    /\ keystream["client"] # None =>
          keystream["client"] =
              NextBytes(KeystreamGenerator_new(shared_secret["client"]),
                        BytesThrough(sent, Len(sent))).ks
    /\ keystream["server"] # None =>
          keystream["server"] =
              NextBytes(KeystreamGenerator_new(shared_secret["server"]),
                        BytesThrough(shown, Len(shown))).ks

\* The connector has encrypted two messages and the listener has decrypted
\* both, four bytes in all on each side.
C11_Witness ==
    /\ Len(sent) = 2 /\ Len(shown) = 2
    /\ BytesThrough(sent, 2) = 4 /\ BytesThrough(shown, 2) = 4

-----------------------------------------------------------------------------
(* Malformed frames.                                                       *)

\* The hexadecimal digits, as ASCII codes.
HexDigits == (48..57) \cup (97..102) \cup (65..70)

\* The line, trimmed, has a character that is no hexadecimal digit or an odd
\* number of characters.
NotValidHex(line) ==
    LET t == trim(line)
    IN  \/ \E i \in 1..Len(t) : t[i] \notin HexDigits
        \/ Len(t) % 2 = 1

\* The line the listener reads next.
NextServerLine == SubSeq(inbox["server"], 1, LineLength(inbox["server"]))

-----------------------------------------------------------------------------
(* Handshake failure.                                                      *)

\* p is this program, not the other one.
IsProgram(p) == pc[p] \notin {"raw", "raw_connect"}

\* The peer of p has closed having written fewer than the 8 bytes of a
\* public value: the read of p cannot complete.
PeerClosedShort(p) == closed[Other(p)] /\ Len(wire[Other(p)]) < 8

\* p has no generator and has read or sent no chat frame.
NoSession(p) ==
    /\ shared_secret[p] = None
    /\ keystream[p] = None
    /\ IF p = "client"
       THEN sent = <<>> /\ Len(wire[p]) <= 8
       ELSE lines_read = 0 /\ shown = <<>> /\ Len(inbox[p]) <= 8

\* C13: if a read or a write of a public value fails, the peer closing before
\* all 8 bytes arrive included, diffie_hellman_exchange returns an error and
\* so does its caller: no keystream generator is created, that peer reads
\* and sends no chat frame, and the handshake is not tried again.
C13_HandshakeFailure ==
    /\ [](\A p \in Peers :
            IsProgram(p) =>
              /\ PeerClosedShort(p) =>
                    pc[p] \in {"connect", "accept", "keygen", "exchange", "error"}
              /\ (pc[p] = "error" /\ hs_step[p] < 2) => NoSession(p))
    /\ [][\A p \in Peers :
            (pc[p] = "error" /\ hs_step[p] < 2) =>
              /\ pc'[p] = "error"
              /\ hs_log'[p] = hs_log[p]
              /\ wire'[p] = wire[p]
              /\ accepts' = accepts
              /\ NoSession(p)']_vars

\* The listener's read of the public value has failed on three bytes and a
\* close, a further connection is waiting, and the listener has returned.
C13_Witness ==
    /\ pc["server"] = "error"
    /\ hs_step["server"] = 0
    /\ wire["client"] = RawShort
    /\ closed["client"]
    /\ pending = 1
-----------------------------------------------------------------------------
(* Chat frames on the wire.                                                *)

\* The lowercase hexadecimal digits, as ASCII codes.
LowerHexDigits == (48..57) \cup (97..102)

\* What the connector has written after the 8 bytes of its public value.
ChatBytes == SubSeq(wire["client"], 9, Len(wire["client"]))

\* The lines of t, each without its newline; what follows the last newline
\* is a line too.
RECURSIVE SplitLines(_)
SplitLines(t) ==
    IF t = <<>> THEN <<>>
    ELSE LET n == NewlineAt(t, 1)
         IN  IF n = 0 THEN <<t>>
             ELSE <<SubSeq(t, 1, n - 1)>> \o SplitLines(SubSeq(t, n + 1, Len(t)))

\* C14: for a plaintext of L >= 1 bytes the connector writes one frame of
\* exactly 2 * L lowercase hexadecimal characters and a newline, and
\* hex-decoding the frame gives the L ciphertext bytes: what the connector
\* has written after its public value is one such frame for each message
\* sent, in order.
C14_FrameFormat ==
    pc["client"] \in {"chat", "exit", "error"} =>
        LET frames == SplitLines(ChatBytes)
        IN  /\ ChatBytes = <<>> \/ ChatBytes[Len(ChatBytes)] = Newline
            /\ Len(frames) = Len(sent)
            /\ \A k \in 1..Len(sent) :
                  LET L == Len(sent[k].plain)
                  IN  /\ L >= 1
                      /\ Len(sent[k].cipher) = L
                      /\ Len(frames[k]) = 2 * L
                      /\ \A i \in 1..(2 * L) : frames[k][i] \in LowerHexDigits
                      /\ hex_decode_or_default(frames[k]) = sent[k].cipher

\* The connector has sent "hi" as 4 hexadecimal characters and a newline,
\* with a letter among them, after another message.
C14_Witness ==
    /\ Len(sent) = 2
    /\ sent[2].plain = <<104, 105>>
    /\ Len(ChatBytes) = 10
    /\ ChatBytes[10] = Newline
    /\ \E i \in 6..9 : ChatBytes[i] \in 97..102
-----------------------------------------------------------------------------
(* The recurrence of next_byte.                                            *)

\* The low 15 bits of x, as a number.
Low15(x) == x[1] + 256 * (x[2] % 128)

\* The states from seed 1 by (state * 1103515245 + 12345) mod 2^32, iterated
\* by hand: 0x41C67EA6, 0x967EB0E7, 0x2781E494.
Seed1States ==
    << HexLit(<<0, 0, 0, 0, \h41, \hC6, \h7E, \hA6>>),
       HexLit(<<0, 0, 0, 0, \h96, \h7E, \hB0, \hE7>>),
       HexLit(<<0, 0, 0, 0, \h27, \h81, \hE4, \h94>>) >>

\* Their low 8 bits.
Seed1Bytes == <<166, 231, 148>>

\* The first state from seed 2^64 - 1, by the same recurrence on the whole
\* seed: ((2^64 - 1) * 1103515245 + 12345) mod 2^32 = 0xBE39E1CC.
SeedMaxFirstState == HexLit(<<0, 0, 0, 0, \hBE, \h39, \hE1, \hCC>>)

\* C15: next_byte replaces the state by (state * 1103515245 + 12345) mod
\* 2^32, the whole 64-bit seed being the state in the first step, and returns
\* the low 8 bits of the new state; from seed 1 the first three bytes are
\* those of the recurrence iterated by hand.
C15_LcgRecurrence ==
    /\ [](\A g \in Gens :
            LET n == Len(gens.out[g])
            IN  /\ (gens.seed = NatLimbs(1, 8) /\ n \in 1..3) =>
                      /\ gens.ks[g].state = Seed1States[n]
                      /\ SubSeq(gens.out[g], 1, n) = SubSeq(Seed1Bytes, 1, n)
                /\ (gens.seed = HexLit(<<255, 255, 255, 255, 255, 255, 255, 255>>)
                    /\ n = 1) =>
                      gens.ks[g].state = SeedMaxFirstState)
    /\ [][\A g \in Gens :
            Len(gens'.out[g]) = Len(gens.out[g]) + 1 =>
              LET old == gens.ks[g].state
                  new == gens'.ks[g].state
              IN  /\ Low15(new) = (Low15(old) * (LCG_A % 32768) + LCG_C) % 32768
                  /\ SubSeq(new, 5, 8) = Zeros(4)
                  /\ gens'.out[g][Len(gens'.out[g])] = Low15(new) % 256]_vars

\* Three calls of next_byte from seed 1 on one generator.
C15_Witness ==
    /\ gens.seed = NatLimbs(1, 8)
    /\ gens.out[1] = Seed1Bytes
    /\ gens.ks[1].state = Seed1States[3]
-----------------------------------------------------------------------------
(* A lost frame.                                                           *)

\* The frames the listener received after the lost one.
ReceivedAfterDrop ==
    {k \in 1..Len(cx.received) : cx.received[k].n > cx.dropped}

\* The listener decrypted its k-th frame to the plaintext that was sent.
DecryptedRight(k) ==
    cx.received[k].decrypted = cx.sent[cx.received[k].n]

\* C16 as stated: if any one frame, of any length >= 1, is lost before the
\* listener reads it, every frame the listener receives afterwards fails to
\* decrypt to its plaintext.
C16_AnyDropDesynchronizes ==
    cx.dropped > 0 => \A k \in ReceivedAfterDrop : ~DecryptedRight(k)

\* C16, amended: if any one frame whose length is not a multiple of 256 is
\* lost before the listener reads it, every frame the listener receives
\* afterwards fails to decrypt to its plaintext, in every byte, and the
\* session never returns to correct decryption.
C16_DropDesynchronizes ==
    (cx.dropped > 0 /\ Len(cx.sent[cx.dropped]) % 256 # 0) =>
        \A k \in ReceivedAfterDrop :
            /\ ~DecryptedRight(k)
            /\ \A i \in 1..Len(cx.received[k].decrypted) :
                  cx.received[k].decrypted[i] # cx.sent[cx.received[k].n][i]

\* "hi" was lost as the first frame and the listener has decrypted the
\* second frame, 256 bytes, to something else.
C16_Witness ==
    /\ cx.dropped = 1
    /\ cx.sent[1] = <<104, 105>>
    /\ Len(cx.sent) = 2
    /\ Len(cx.sent[2]) = 256
    /\ Len(cx.received) = 1
    /\ cx.received[1].n = 2
    /\ ~DecryptedRight(1)
-----------------------------------------------------------------------------
(* One direction for each role.                                            *)

\* C17: in every state after its handshake has completed, the listener never
\* writes to the transport and the connector never reads from it: what the
\* listener has written stays the 8 bytes of its public value, and nothing
\* is ever taken from what has arrived at the connector.
C17_RoleUnidirectional ==
    [][/\ (IsProgram("server") /\ hs_step["server"] = 2) =>
            /\ wire'["server"] = wire["server"]
            /\ Len(wire["server"]) = 8
       /\ (IsProgram("client") /\ hs_step["client"] = 2) =>
            IsPrefix(inbox["client"], inbox'["client"])]_vars

\* The connector has sent a frame and returned, and a line written to it
\* after the handshake is still unread.
C17_Witness ==
    /\ IsProgram("client")
    /\ pc["client"] = "exit"
    /\ Len(sent) = 1
    /\ Len(wire["client"]) > 8
    /\ inbox["client"] = <<54, 97, 10>>
-----------------------------------------------------------------------------
(* The end of the chat loops.                                              *)

\* p leaves its chat loop in this step.
LeavesLoop(p) == pc[p] = "chat" /\ pc'[p] # "chat"

\* C18: the listener's loop exits only when a read returns zero bytes, the
\* peer having closed, or the transport fails, and the connector's loop only
\* when its input has reached its end or the transport fails; no content of
\* a frame or of an input line makes either loop exit.  The transport of the
\* model fails only for a write to a peer that has closed.
C18_LoopExitsOnlyAtEnd ==
    [][/\ LeavesLoop("server") =>
            closed["client"] /\ inbox["server"] = <<>>
       /\ LeavesLoop("client") =>
            \/ pc'["client"] = "exit" /\ lines_typed' = lines_typed
            \/ pc'["client"] = "error" /\ closed["server"]]_vars
-----------------------------------------------------------------------------
(* What the handshake writes.                                              *)

\* The handshake of p is still going on.
InHandshake(p) == pc[p] \in {"connect", "accept", "keygen", "exchange", "secret"}

\* How many blocks p has written in its handshake.
HsSends(p) == Cardinality({k \in 1..Len(hs_log[p]) : hs_log[p][k][1] = "send"})

\* The first 8 bytes of buf are x, most significant byte first.
IsBigEndianOf(buf, x) == \A i \in 1..8 : buf[i] = x[9 - i]

\* C19: during the handshake each peer writes exactly one block, the 8-byte
\* big-endian encoding of its public value mod_exp(G, private, P); the
\* private scalar is never written, and the peer's decoding of the 8 bytes
\* gives exactly the value that was encoded.
C19_HandshakeBlock ==
    \A p \in Peers :
        /\ HsSends(p) <= 1
        /\ InHandshake(p) => Len(wire[p]) = 8 * HsSends(p)
        /\ hs_step[p] = 2 => HsSends(p) = 1
        /\ HsSends(p) = 1 =>
              /\ Len(wire[p]) >= 8
              /\ hs_log[p][IF is_server[p] THEN 2 ELSE 1] = <<"send", 8>>
              /\ public_key[p] = ModExpP(GU64, private_key[p])
              /\ IsBigEndianOf(wire[p], public_key[p])
              /\ ~IsBigEndianOf(wire[p], private_key[p])
        /\ their_public[p] # None => their_public[p] = public_key[Other(p)]

\* Both have written their block and read the other's; the connector's
\* private scalar is one of 61 bits.
C19_Witness ==
    /\ pc["client"] = "secret"
    /\ pc["server"] = "secret"
    /\ private_key["client"] = KeyPool[2]
    /\ Len(wire["client"]) = 8
    /\ Len(wire["server"]) = 8
    /\ their_public["server"] = public_key["client"]
    /\ their_public["client"] = public_key["server"]
-----------------------------------------------------------------------------
(* One connection for each listener.                                       *)

\* The listener has accepted its connection.
Accepted == pc["server"] \notin {"accept", "raw"}

\* C20: a listener services exactly one connection: it accepts once, and in
\* no later state, during the handshake, during the chat loop or after the
\* peer has closed, does it accept another connection or start another
\* handshake, whatever connections are waiting.
C20_OneConnection ==
    /\ [](/\ accepts <= 1
          /\ Accepted => accepts = 1
          /\ Len(hs_log["server"]) <= 2)
    /\ [][Accepted =>
            /\ accepts' = accepts
            /\ pc'["server"] # "accept"
            /\ pc["server"] # "keygen" => pc'["server"] # "keygen"
            /\ IsPrefix(hs_log["server"], hs_log'["server"])]_vars

\* The listener has served its connection to the end and returned while a
\* further connection waits.
C20_Witness ==
    /\ pc["server"] = "exit"
    /\ accepts = 1
    /\ pending = 1
    /\ Len(shown) = 1
-----------------------------------------------------------------------------
(* The multiplications of mod_exp.                                         *)

\* a < b for two values of the same width.
Lt(a, b) == ~Geq(a, b)

\* a * b in 256 bits is below 2^128.
ProductFitsU128(a, b) ==
    SubSeq(MulW(Resize(a, 32), Resize(b, 32)), 17, 32) = Zeros(16)

\* mod_exp is about to run an iteration of its loop.
AtIteration == me # None /\ me.loop # None /\ ~IsZero(me.loop.exp)

\* C21: in mod_exp with a modulus above 1, at every multiplication, result *
\* base when the low bit of exp is set and base * base, both operands are
\* strictly below the modulus, and the product is below 2^128: the u128
\* intermediate does not overflow before the reduction.
C21_OperandsBelowModulus ==
    (AtIteration /\ me.modulus # NatLimbs(1, 8)) =>
        LET s == me.loop
        IN  /\ Lt(s.base, s.modulus)
            /\ ProductFitsU128(s.base, s.base)
            /\ s.exp[1] % 2 = 1 =>
                  /\ Lt(s.result, s.modulus)
                  /\ ProductFitsU128(s.result, s.base)

\* mod_exp is at its last iteration on the base 2^64 - 1, the exponent
\* 2^64 - 1 and the modulus p, with both operands above 2^32.
C21_Witness ==
    /\ AtIteration
    /\ me.base = HexLit(<<255, 255, 255, 255, 255, 255, 255, 255>>)
    /\ me.exp = HexLit(<<255, 255, 255, 255, 255, 255, 255, 255>>)
    /\ me.modulus = P
    /\ me.loop.iters = 63
    /\ Sig(me.loop.base) > 4
    /\ Sig(me.loop.result) > 4
-----------------------------------------------------------------------------
(* The iterations of mod_exp.                                              *)

\* The number of bits of a byte up to its highest set bit.
ByteBitLength(b) ==
    IF b = 0 THEN 0
    ELSE CHOOSE k \in 1..8 : b < 2^k /\ b >= 2^(k - 1)

\* The bit length of x: 0 for 0.
BitLength(x) ==
    IF Sig(x) = 0 THEN 0 ELSE 8 * (Sig(x) - 1) + ByteBitLength(x[Sig(x)])

\* C23: mod_exp terminates for every input with a modulus of at least 1: its
\* loop runs exactly as many iterations as exp has bits, at most 64 and none
\* when exp = 0, exp being shifted right once in each iteration.  The
\* iterations done and the bits left in exp always add up to the bit length
\* of the exponent passed, each iteration takes one bit from exp, and the
\* loop is left when none remains.
C23_IterationsAreBitLength ==
    /\ []((me # None /\ me.loop # None) =>
            /\ me.loop.iters + BitLength(me.loop.exp) = BitLength(me.exp)
            /\ me.loop.iters <= 64
            /\ me.ret # None =>
                  /\ me.loop.iters = BitLength(me.exp)
                  /\ IsZero(me.exp) => me.loop.iters = 0)
    /\ [][(me # None /\ me.loop # None /\ me'.loop # me.loop) =>
            /\ BitLength(me'.loop.exp) = BitLength(me.loop.exp) - 1
            /\ me'.loop.iters = me.loop.iters + 1]_vars

\* mod_exp has returned after 64 iterations on the exponent 2^64 - 1 and the
\* modulus 1.
C23_Witness ==
    /\ me # None /\ me.ret # None
    /\ me.exp = HexLit(<<255, 255, 255, 255, 255, 255, 255, 255>>)
    /\ me.modulus = NatLimbs(1, 8)
    /\ me.loop.iters = 64
-----------------------------------------------------------------------------
(* Skipped input.                                                          *)

\* t is empty or made of White_Space characters only.
RECURSIVE OnlyWhitespace(_)
OnlyWhitespace(t) ==
    IF t = <<>> THEN TRUE
    ELSE IF \E w \in Whitespace : StartsWith(t, w)
    THEN LET w == CHOOSE w \in Whitespace : StartsWith(t, w)
         IN  OnlyWhitespace(SubSeq(t, Len(w) + 1, Len(t)))
    ELSE FALSE

\* C22: a line that is empty or whitespace-only, read by the listener from
\* the transport or by the connector from its input, causes no keystream
\* step, no decryption and, on the connector, no frame to be written, and
\* the loop goes on to the next line.  On the connector, whose input line is
\* known only from what it does with it: a turn of its loop either changes
\* nothing of the session, or encrypts and writes a line that is not
\* whitespace-only.
C22_SkippedInput ==
    [][/\ (/\ pc["server"] = "chat"
           /\ lines_read' = lines_read + 1
           /\ OnlyWhitespace(NextServerLine))
          => (/\ keystream'["server"] = keystream["server"]
              /\ shown' = shown
              /\ pc'["server"] = "chat")
       /\ (/\ pc["client"] = "chat"
           /\ lines_typed' = lines_typed + 1
           /\ pc'["client"] = "chat")
          => IF sent' = sent
             THEN /\ keystream'["client"] = keystream["client"]
                  /\ wire'["client"] = wire["client"]
                  /\ inbox'["server"] = inbox["server"]
             ELSE /\ Len(sent') = Len(sent) + 1
                  /\ ~OnlyWhitespace(sent'[Len(sent')].plain)
                  /\ Len(wire'["client"]) > Len(wire["client"])]_vars

\* The listener has read an empty line and then decrypted "6a" with the first
\* keystream byte.
C22_Witness ==
    /\ pc["server"] = "chat"
    /\ lines_read = 2
    /\ wire["client"] = to_be_bytes(GU64) \o <<10, 54, 97, 10>>
    /\ Len(shown) = 1
    /\ shown[1].ks =
           NextBytes(KeystreamGenerator_new(shared_secret["server"]), 1).ks
-----------------------------------------------------------------------------
(* The range of the keystream state.                                       *)

\* x is below 2^32.
BelowTwo32(x) == SubSeq(x, 5, 8) = Zeros(4)

\* C24: the state of a generator is the whole 64-bit seed until its first
\* next_byte call, whatever peek_bytes calls were made, and strictly below
\* 2^32 in every state after at least one next_byte call.
C24_StateRange ==
    gens # None =>
        \A g \in Gens :
            IF Len(gens.out[g]) = 0
            THEN gens.ks[g].state = gens.seed
            ELSE BelowTwo32(gens.ks[g].state)

\* From the seed 2^64 - 1, one generator has been stepped and is below 2^32,
\* the other has only been peeked at and still holds the seed.
C24_Witness ==
    /\ gens # None
    /\ gens.seed = HexLit(<<255, 255, 255, 255, 255, 255, 255, 255>>)
    /\ Len(gens.out[1]) = 1
    /\ BelowTwo32(gens.ks[1].state)
    /\ Len(gens.out[2]) = 0
    /\ gens.peeked # None
    /\ gens.peeked.g = 2
    /\ gens.peeked.count = 2
    /\ ~BelowTwo32(gens.ks[2].state)
-----------------------------------------------------------------------------
(* The period of the keystream.                                            *)

\* C25: the keystream bytes depend only on the low 8 bits of the seed: two
\* generators whose seeds are congruent modulo 256 return the same byte on
\* every next_byte call, and for every seed the byte of call n + 256 is the
\* byte of call n.
C25_KeystreamPeriod ==
    (gens # None /\ gens.seeds[1][1] = gens.seeds[2][1]) =>
        /\ gens.out[1] = gens.out[2]
        /\ \A g \in Gens :
              \A n \in 1..Len(gens.out[g]) :
                  n > 256 => gens.out[g][n] = gens.out[g][n - 256]

\* From the seeds 2^64 - 1 and 255, 258 calls on each generator: the states
\* differ, the 256 bytes of the first round are all different, and the
\* second round has begun.
C25_Witness ==
    /\ gens # None
    /\ gens.seeds[2] = NatLimbs(255, 8)
    /\ gens.seeds[1] # gens.seeds[2]
    /\ Len(gens.out[1]) = 258
    /\ gens.ks[1].state # gens.ks[2].state
    /\ Cardinality({gens.out[1][n] : n \in 1..256}) = 256
-----------------------------------------------------------------------------
(* Handshake bytes and chat bytes.                                         *)

\* s is what is left of t after some of its lines, each with its newline.
IsLinesSuffix(s, t) ==
    /\ Len(s) <= Len(t)
    /\ SubSeq(t, Len(t) - Len(s) + 1, Len(t)) = s
    /\ Len(s) < Len(t) => t[Len(t) - Len(s)] = Newline

\* p has read the public value of its peer.
HasReceived(p) ==
    \E k \in 1..Len(hs_log[p]) : hs_log[p][k][1] = "receive"

\* C26: handshake and chat bytes never mix.  The listener's handshake takes
\* exactly the first 8 bytes the connector wrote; the connector writes its
\* first chat frame only after it has read the listener's 8-byte public
\* value, hence after the listener has read the connector's; so the value a
\* peer decodes is made of the 8 handshake bytes of the other and of nothing
\* else, and what the listener has still to read in its loop is chat frames
\* only, from the start of a frame on.
C26_HandshakeChatSeparate ==
    /\ ~HasReceived("server") =>
          /\ inbox["server"] = wire["client"]
          /\ Len(wire["client"]) <= 8
    /\ HasReceived("server") =>
          /\ hs_log["server"][1] = <<"receive", 8>>
          /\ IsLinesSuffix(inbox["server"], ChatBytes)
    /\ Len(wire["client"]) > 8 =>
          /\ HasReceived("client")
          /\ HasReceived("server")
          /\ hs_step["client"] = 2
    /\ HasReceived("client") =>
          /\ hs_log["client"][2] = <<"receive", 8>>
          /\ inbox["client"] = <<>>
    /\ \A p \in Peers :
          HasReceived(p) => IsBigEndianOf(wire[Other(p)], their_public[p])

\* The listener has read the first of two frames; the second is still to be
\* read.
C26_Witness ==
    /\ pc["server"] = "chat"
    /\ lines_read = 1
    /\ Len(shown) = 1
    /\ Len(sent) = 2
    /\ inbox["server"] = hex_encode(sent[2].cipher) \o <<Newline>>
    /\ Len(inbox["server"]) < Len(ChatBytes)
-----------------------------------------------------------------------------
(* Orderly shutdown.                                                       *)

\* The listener has decrypted every frame the connector sent, in order, to
\* what was typed.
AllDecrypted ==
    /\ Len(shown) = Len(sent)
    /\ \A k \in 1..Len(sent) :
          /\ shown[k].cipher = sent[k].cipher
          /\ shown[k].plain = sent[k].plain

\* C27: if the connector's input reaches its end after a completed
\* handshake, so that the connector returns and its connection closes, then
\* under fair scheduling the listener eventually decrypts every frame the
\* connector sent before closing, in order, and then its read returns zero
\* and its loop ends.
C27_OrderlyShutdown ==
    (pc["client"] = "exit") ~> (pc["server"] = "exit" /\ AllDecrypted)

\* The connector has sent two frames and returned, and the listener has
\* decrypted both and returned.
C27_Witness ==
    /\ pc["client"] = "exit"
    /\ pc["server"] = "exit"
    /\ Len(sent) = 2
    /\ AllDecrypted
-----------------------------------------------------------------------------
(* The "Key:" diagnostic.                                                  *)

\* The bytes of key are the keystream bytes that make output of input, byte
\* for byte.
IsKeyOf(key, input, output) ==
    \A i \in 1..Len(key) : XorByte(input[i], key[i]) = output[i]

\* C28: for every message, the "Key:" bytes of the encrypt diagnostic of the
\* connector and of the decrypt diagnostic of the listener are the keystream
\* bytes that xor_cipher then XORs with the first bytes of that message.
C28_KeyDiagnostic ==
    /\ \A k \in 1..Len(sent) :
          /\ Len(sent[k].key) = Min(Len(sent[k].plain), 4)
          /\ IsKeyOf(sent[k].key, sent[k].plain, sent[k].cipher)
    /\ \A k \in 1..Len(shown) :
          /\ Len(shown[k].key) = Min(Len(shown[k].cipher), 3)
          /\ IsKeyOf(shown[k].key, shown[k].cipher, shown[k].plain)
====
